---- MODULE Spec2Model ----
(***************************************************************************)
(* Model of the colonies pipeline of GR03A_DataFrame.py: the Extractor     *)
(* (txt_to_dataframe) and the Aggregator (create_df_for_viz).              *)
(*                                                                         *)
(* Text that the code scans character by character (the lines of the       *)
(* catalogue, the matched mentions, city codes, country codes, city names) *)
(* is a sequence of one-character strings.  Cell values that the code only *)
(* compares, looks up or concatenates (country names, coordinates, labels) *)
(* are TLA+ strings.  A missing cell (pandas NaN) is the string NaN.       *)
(***************************************************************************)
EXTENDS Integers, Sequences, FiniteSets, TLC

VARIABLES build, txt_file, mapping_file, geo_file, cities_df, clean_df, df, kept_rows, labelled_rows,
          file_state, history, loads, pipeline_runs, tool_out, extract, chat, enhanced,
          professional

vars == <<build, txt_file, mapping_file, geo_file, cities_df, clean_df, df, kept_rows, labelled_rows,
          file_state, history, loads, pipeline_runs, tool_out, extract, chat, enhanced,
          professional>>

(***************************************************************************)
(* Bounds of the model.                                                    *)
(***************************************************************************)
\* Largest number of lines of the text file.
MaxLines == 2
\* Largest city count of the summary row drawn in SpecRow.
MaxCount == 100
\* The most calls of the pipeline in one recorded run.
MaxCalls == 2
\* The most calls of load_data in one run of the chat app.
MaxLoads == 2
\* The most clicks on a reset button of a dashboard.
MaxClicks == 2
\* The most messages a chat session receives.
MaxMessages == 12

(***************************************************************************)
(* Characters.                                                             *)
(***************************************************************************)
Upper == {"A","B","C","D","E","F","G","H","I","J","K","L","M","N","O","P","Q","R","S","T","U","V","W","X","Y","Z"}
Lower == {"a","b","c","d","e","f","g","h","i","j","k","l","m","n","o","p","q","r","s","t","u","v","w","x","y","z"}
Digit == {"0","1","2","3","4","5","6","7","8","9"}
Letter == Upper \cup Lower
\* What \s and str.strip() treat as white space, among the characters a line can hold.
Whitespace == {" ", "\t"}

NaN == "NaN"

(***************************************************************************)
(* A backtracking matcher for the fragment of `re` the code uses: a        *)
(* pattern is a sequence of items, each a character class with a           *)
(* quantifier (min, one or many, greedy or lazy).                          *)
(***************************************************************************)
Item(cls, min, many, greedy) == [cls |-> cls, min |-> min, many |-> many, greedy |-> greedy]

\* r'[A-Z]+[0-9]+\.\s[A-Za-z]+/?[A-Za-z]*?\s?[A-Za-z]*?'
CITY_PATTERN ==
    << Item(Upper, 1, TRUE, TRUE),         \* [A-Z]+
       Item(Digit, 1, TRUE, TRUE),         \* [0-9]+
       Item({"."}, 1, FALSE, TRUE),        \* \.
       Item(Whitespace, 1, FALSE, TRUE),   \* \s
       Item(Letter, 1, TRUE, TRUE),        \* [A-Za-z]+
       Item({"/"}, 0, FALSE, TRUE),        \* /?
       Item(Letter, 0, TRUE, FALSE),       \* [A-Za-z]*?
       Item(Whitespace, 0, FALSE, TRUE),   \* \s?
       Item(Letter, 0, TRUE, FALSE) >>     \* [A-Za-z]*?

\* Number of consecutive characters of s from position i that are in cls, at most cap.
RECURSIVE RunLen(_, _, _, _)
RunLen(cls, s, i, cap) ==
    IF cap = 0 \/ i > Len(s) \/ s[i] \notin cls THEN 0
    ELSE 1 + RunLen(cls, s, i + 1, cap - 1)

\* MatchFrom(pat, k, s, i): items k.. of pat matched against s from position i;
\* the position after the match the engine finds first, or -1 if there is none.
\* TryCount tries the repetition counts of item k in the engine's order:
\* greedy from the most down, lazy from the fewest up.
RECURSIVE MatchFrom(_, _, _, _), TryCount(_, _, _, _, _, _)
MatchFrom(pat, k, s, i) ==
    IF k > Len(pat) THEN i
    ELSE LET it == pat[k]
             avail == RunLen(it.cls, s, i, IF it.many THEN Len(s) ELSE 1)
         IN  IF avail < it.min THEN -1
             ELSE TryCount(pat, k, s, i, IF it.greedy THEN avail ELSE it.min, avail)

TryCount(pat, k, s, i, n, avail) ==
    LET it == pat[k]
        r == MatchFrom(pat, k + 1, s, i + n)
    IN  IF r # -1 THEN r
        ELSE IF it.greedy
             THEN (IF n > it.min THEN TryCount(pat, k, s, i, n - 1, avail) ELSE -1)
             ELSE (IF n < avail THEN TryCount(pat, k, s, i, n + 1, avail) ELSE -1)

\* re.findall(pat, s): the non-overlapping matches, scanning from the left.
RECURSIVE FindAllFrom(_, _, _)
FindAllFrom(pat, s, i) ==
    IF i > Len(s) THEN << >>
    ELSE LET e == MatchFrom(pat, 1, s, i)
         IN  IF e = -1 THEN FindAllFrom(pat, s, i + 1)
             ELSE IF e = i THEN << << >> >> \o FindAllFrom(pat, s, i + 1)
             ELSE << SubSeq(s, i, e - 1) >> \o FindAllFrom(pat, s, e)

findall(pat, s) == FindAllFrom(pat, s, 1)

\* re.search(pat, s): the first match as a one-element sequence, empty if none.
search(pat, s) ==
    LET all == findall(pat, s) IN IF all = << >> THEN << >> ELSE << all[1] >>

(***************************************************************************)
(* String helpers of pandas' .str accessor.                                *)
(***************************************************************************)
\* s.strip()
RECURSIVE lstrip(_), rstrip(_)
lstrip(s) == IF s # << >> /\ Head(s) \in Whitespace THEN lstrip(Tail(s)) ELSE s
rstrip(s) == IF s # << >> /\ s[Len(s)] \in Whitespace THEN rstrip(SubSeq(s, 1, Len(s) - 1)) ELSE s
strip(s) == rstrip(lstrip(s))

\* s.split(sep) for a one-character separator: the pieces between separators.
RECURSIVE SplitFrom(_, _, _, _)
SplitFrom(s, sep, i, start) ==
    IF i > Len(s) THEN << SubSeq(s, start, Len(s)) >>
    ELSE IF s[i] = sep THEN << SubSeq(s, start, i - 1) >> \o SplitFrom(s, sep, i + 1, i + 1)
    ELSE SplitFrom(s, sep, i + 1, start)

split(s, sep) == SplitFrom(s, sep, 1, 1)

\* itertools.chain(*lists)
\* itertools.chain with the later lists first.
RECURSIVE chain_reversed(_)
chain_reversed(lists) ==
    IF lists = << >> THEN << >> ELSE chain_reversed(Tail(lists)) \o Head(lists)

RECURSIVE chain(_)
chain(lists) == IF lists = << >> THEN << >> ELSE Head(lists) \o chain(Tail(lists))

\* dict(zip(keys, values))[k], NaN when k is no key: Series.map(dict).
\* A key that occurs twice keeps its last value.
RECURSIVE DictGet(_, _, _)
DictGet(pairs, k, default) ==
    IF pairs = << >> THEN default
    ELSE LET last == pairs[Len(pairs)]
         IN  IF last[1] = k THEN last[2]
             ELSE DictGet(SubSeq(pairs, 1, Len(pairs) - 1), k, default)

(***************************************************************************)
(* txt_to_dataframe                                                        *)
(***************************************************************************)
\* CityRow without the .str.strip() of line 32.
CityRow_untrimmed(m, mapping) ==
    LET parts == split(m, ".")
        code == search(<< Item(Upper, 1, TRUE, TRUE) >>, m)
    IN  [ City_Code_and_Name |-> m,
          City_Code    |-> strip(parts[1]),
          Country_Code |-> code[1],
          City_Name    |-> parts[2],
          Country_Name |-> DictGet(mapping, code[1], NaN) ]

\* One row of clean_df from one matched string (lines 29-32 and 44).
CityRow(m, mapping) ==
    LET parts == split(m, ".")
        code == search(<< Item(Upper, 1, TRUE, TRUE) >>, m)
    IN  [ City_Code_and_Name |-> m,
          City_Code    |-> strip(parts[1]),
          Country_Code |-> code[1],
          City_Name    |-> strip(parts[2]),
          Country_Name |-> DictGet(mapping, code[1], NaN) ]

\* The per-line match lists (line 18).
city_list_of(lines) == [ i \in 1..Len(lines) |-> findall(CITY_PATTERN, lines[i]) ]

\* The flattened list of matches (line 22).
new_city_list_of(lines) == chain(city_list_of(lines))

\* pd.read_csv of a reference file that is not there raises
\* FileNotFoundError, of one that is no CSV table ParserError; the selection
\* of a column that the file does not have (lines 38-39, 58-60) raises KeyError.
FileErrors ==
    [ missing |-> "FileNotFoundError", unparsable |-> "ParserError", no_columns |-> "KeyError" ]

\* read_csv that gives a table whatever the state of the file.
read_csv_lenient(name) == "ok"

\* The outcome of loading the reference file of that name and selecting its
\* columns: "ok" or the error raised.
read_csv(name) ==
    IF file_state[name] = "ok" THEN "ok" ELSE FileErrors[file_state[name]]

\* txt_to_dataframe that keeps the table of its first call and returns it
\* from then on.
txt_to_dataframe_memoized(lines, mapping) ==
    LET new_city_list == new_city_list_of(lines)
    IN  IF cities_df.status # "none"
        THEN [ status |-> cities_df.status, rows |-> cities_df.rows, opened |-> cities_df.opened ]
        ELSE IF new_city_list = << >>
        THEN [ status |-> "ValueError", rows |-> << >>, opened |-> << "txt" >> ]
        ELSE IF read_csv("mapping") # "ok"
        THEN [ status |-> read_csv("mapping"), rows |-> << >>, opened |-> << "txt", "mapping" >> ]
        ELSE [ status |-> "ok",
               rows |-> [ i \in 1..Len(new_city_list) |-> CityRow(new_city_list[i], mapping) ],
               opened |-> << "txt", "mapping" >> ]

\* The result of a call of txt_to_dataframe on the given files, with the files
\* the call opened, in order.  With no match at all pd.DataFrame([]) has no
\* column and naming its one column (line 26) raises ValueError; the mapping
\* file is loaded after that (line 35), and an error of the load propagates.
txt_to_dataframe(lines, mapping) ==
    LET new_city_list == new_city_list_of(lines)
    IN  IF new_city_list = << >>
        THEN [ status |-> "ValueError", rows |-> << >>, opened |-> << "txt" >> ]
        ELSE IF read_csv("mapping") # "ok"
        THEN [ status |-> read_csv("mapping"), rows |-> << >>, opened |-> << "txt", "mapping" >> ]
        ELSE [ status |-> "ok",
               rows |-> [ i \in 1..Len(new_city_list) |-> CityRow(new_city_list[i], mapping) ],
               opened |-> << "txt", "mapping" >> ]

(***************************************************************************)
(* create_df_for_viz                                                       *)
(***************************************************************************)
\* The distinct non-missing values of a column, in order of first appearance.
RECURSIVE Uniques(_, _)
Uniques(col, seen) ==
    IF col = << >> THEN << >>
    ELSE IF Head(col) = NaN \/ Head(col) \in seen THEN Uniques(Tail(col), seen)
    ELSE << Head(col) >> \o Uniques(Tail(col), seen \cup {Head(col)})

\* Number of cells of col equal to v.
RECURSIVE CountOf(_, _)
CountOf(col, v) ==
    IF col = << >> THEN 0
    ELSE (IF Head(col) = v THEN 1 ELSE 0) + CountOf(Tail(col), v)

\* Counted with missing values kept as a group (value_counts(dropna=False)).
RECURSIVE UniquesWithMissing(_, _)
UniquesWithMissing(col, seen) ==
    IF col = << >> THEN << >>
    ELSE IF Head(col) \in seen THEN UniquesWithMissing(Tail(col), seen)
    ELSE << Head(col) >> \o UniquesWithMissing(Tail(col), seen \cup {Head(col)})

Counted_keep_missing(col) ==
    LET u == UniquesWithMissing(col, {})
    IN  [ i \in 1..Len(u) |-> [ Country |-> u[i], No_of_Cities |-> CountOf(col, u[i]) ] ]

\* Counted without grouping: one row per non-missing cell, each with its
\* value's count (a transform('count') instead of value_counts).
Counted_per_cell(col) ==
    LET present == SelectSeq(col, LAMBDA v : v # NaN)
    IN  [ i \in 1..Len(present) |->
            [ Country |-> present[i], No_of_Cities |-> CountOf(col, present[i]) ] ]

\* The counts per value before sorting: one row per distinct non-missing value,
\* in order of first appearance.
Counted(col) ==
    LET u == Uniques(col, {})
    IN  [ i \in 1..Len(u) |-> [ Country |-> u[i], No_of_Cities |-> CountOf(col, u[i]) ] ]

\* Before with an order of the rows of equal count that turns around from one
\* call to the next.
Before_ties_by_call(x, y) ==
    \/ x.No_of_Cities > y.No_of_Cities
    \/ /\ x.No_of_Cities = y.No_of_Cities
       /\ IF Len(history) % 2 = 0
          THEN build.tie_rank[x.Country] < build.tie_rank[y.Country]
          ELSE build.tie_rank[x.Country] > build.tie_rank[y.Country]

\* Whether row x comes before row y in the sorted counts: the larger count
\* first, rows of equal count in the order the build gives them.
Before(x, y) ==
    \/ x.No_of_Cities > y.No_of_Cities
    \/ /\ x.No_of_Cities = y.No_of_Cities
       /\ build.tie_rank[x.Country] < build.tie_rank[y.Country]

\* sort_values(ascending=False) of the counts.
RECURSIVE InsertRow(_, _), sort_values(_)
InsertRow(x, sorted) ==
    IF sorted = << >> THEN << x >>
    ELSE IF Before(x, Head(sorted)) THEN << x >> \o sorted
    ELSE << Head(sorted) >> \o InsertRow(x, Tail(sorted))

sort_values(table) ==
    IF table = << >> THEN << >> ELSE InsertRow(Head(table), sort_values(Tail(table)))

\* value_counts(sort=False): the rows stay in order of first appearance.
value_counts_unsorted(col) == Counted(col)

\* Series.value_counts().rename_axis('Country').reset_index(name='No of Cities')
\* (line 52): missing values are dropped and the rows are sorted by count,
\* largest first.  sort_values uses an unstable sort, so the order of rows of
\* equal count is whatever the installed pandas and numpy produce: the same on
\* every call, and given here by build.tie_rank.
value_counts(col) == sort_values(Counted(col))

\* Lines 58-69: the Latitude and Longitude columns, looked up by country name.
lat_dict(geo) == [ i \in 1..Len(geo) |-> << geo[i][1], geo[i][2] >> ]
long_dict(geo) == [ i \in 1..Len(geo) |-> << geo[i][1], geo[i][3] >> ]

\* The coordinates attached by an inner join: a country absent from geo loses its row.
add_coordinates_inner(table, geo) ==
    LET known == SelectSeq(table, LAMBDA r : \E k \in 1..Len(geo) : geo[k][1] = r.Country)
    IN  [ i \in 1..Len(known) |->
            [ Country |-> known[i].Country,
              No_of_Cities |-> known[i].No_of_Cities,
              Latitude |-> DictGet(lat_dict(geo), known[i].Country, NaN),
              Longitude |-> DictGet(long_dict(geo), known[i].Country, NaN) ] ]

add_coordinates(table, geo) ==
    [ i \in 1..Len(table) |->
        [ Country |-> table[i].Country,
          No_of_Cities |-> table[i].No_of_Cities,
          Latitude |-> DictGet(lat_dict(geo), table[i].Country, NaN),
          Longitude |-> DictGet(long_dict(geo), table[i].Country, NaN) ] ]

\* The exclusion as a filter on the count: every row with Serbia's city count goes.
drop_countries_by_count(table) ==
    LET serbia == { table[i].No_of_Cities : i \in { k \in 1..Len(table) : table[k].Country = "Serbia" } }
    IN  SelectSeq(table, LAMBDA r : r.No_of_Cities \notin serbia)

\* Line 72 left out: no row is dropped.
drop_countries_none(table) == table

\* Line 72: city_count_geo_df[city_count_geo_df.Country != 'Serbia']
RECURSIVE drop_countries(_)
drop_countries(table) ==
    IF table = << >> THEN << >>
    ELSE IF Head(table).Country # "Serbia" THEN << Head(table) >> \o drop_countries(Tail(table))
    ELSE drop_countries(Tail(table))

\* assign_category with the upper ends of the bands included (value <= 90, ...).
assign_category_closed_bands(r) ==
    LET value == r.No_of_Cities
    IN  IF value > 90 THEN "90+ colonies"
        ELSE IF value > 60 /\ value <= 90 THEN "60 - 90 colonies"
        ELSE IF value > 30 /\ value <= 60 THEN "30 - 60 colonies"
        ELSE IF value > 10 /\ value <= 20 THEN "10 - 20 colonies"
        ELSE "Less than 10 colonies"

\* Lines 75-92.
assign_category(r) ==
    LET value == r.No_of_Cities
    IN  IF value > 90 THEN "90+ colonies"
        ELSE IF value > 60 /\ value < 90 THEN "60 - 90 colonies"
        ELSE IF value > 30 /\ value < 60 THEN "30 - 60 colonies"
        ELSE IF value > 10 /\ value < 20 THEN "10 - 20 colonies"
        ELSE "Less than 10 colonies"

\* astype(str) of a count: its decimal digits.
DigitStr == << "0", "1", "2", "3", "4", "5", "6", "7", "8", "9" >>
RECURSIVE astype_str(_)
astype_str(n) ==
    IF n < 10 THEN DigitStr[n + 1]
    ELSE astype_str(n \div 10) \o DigitStr[(n % 10) + 1]

\* The label with a singular suffix for a count of 1.
trace_text_singular(r) ==
    r.Country \o "<br>" \o astype_str(r.No_of_Cities)
      \o (IF r.No_of_Cities = 1 THEN " colony" ELSE " colonies")

\* Lines 98-99.
trace_text(r) == r.Country \o "<br>" \o astype_str(r.No_of_Cities) \o " colonies"

\* Lines 95-99: the Category and Trace_Text columns.
add_category_and_text(table) ==
    [ i \in 1..Len(table) |->
        [ Country |-> table[i].Country,
          No_of_Cities |-> table[i].No_of_Cities,
          Latitude |-> table[i].Latitude,
          Longitude |-> table[i].Longitude,
          Category |-> assign_category(table[i]),
          Trace_Text |-> trace_text(table[i]) ] ]

\* The Country Name column after dropping rows that repeat an earlier City Code.
country_column_unique_codes(per_city) ==
    LET firsts == SelectSeq([ i \in 1..Len(per_city) |-> i ],
                            LAMBDA i : \A k \in 1..i - 1 : per_city[k].City_Code # per_city[i].City_Code)
    IN  [ i \in 1..Len(firsts) |-> per_city[firsts[i]].Country_Name ]

\* The Country Name column of the per-city table (line 52, clean_df['Country Name']).
country_column(per_city) == [ i \in 1..Len(per_city) |-> per_city[i].Country_Name ]

\* Lines 52-102 on a per-city table.  With no row left after line 72,
\* DataFrame.apply(axis=1) returns an empty frame, whose assignment to the one
\* column Category raises ValueError, or an empty Series, which gives an empty
\* table: which of the two depends on the installed pandas, build.empty_apply.
summary_of(per_city, geo) ==
    LET kept == drop_countries(add_coordinates(value_counts(country_column(per_city)), geo))
    IN  IF kept = << >>
        THEN [ status |-> build.empty_apply, rows |-> << >> ]
        ELSE [ status |-> "ok", rows |-> add_category_and_text(kept) ]

\* A call of create_df_for_viz on the given files: its local per-city table
\* (line 50) and what it returns; an error of txt_to_dataframe propagates, and
\* so does an error of the load of the geo file (line 55).
create_df_for_viz(lines, mapping, geo) ==
    LET per_city == txt_to_dataframe(lines, mapping)
        opened == per_city.opened \o << "geo" >>
        summary == summary_of(per_city.rows, geo)
    IN  [ clean_df |-> per_city,
          returns |-> IF per_city.status # "ok" THEN per_city
                      ELSE IF read_csv("geo") # "ok"
                      THEN [ status |-> read_csv("geo"), rows |-> << >>, opened |-> opened ]
                      ELSE [ status |-> summary.status, rows |-> summary.rows,
                             opened |-> opened ] ]

(***************************************************************************)
(* The files.                                                              *)
(***************************************************************************)
Line_E2E == <<"S","o","m","e"," ","p","r","o","s","e"," ","T","R","1","2","."," ","A","p","o","l","l","o","n","i","a"," ","a","n","d"," ","I","T","0","3","."," ","N","e","a","p","o","l","i","s","/","N","a","p","o","l","i"," ","m","o","r","e"," ","t","e","x","t">>
Line_TwoWord == <<"T","R","5","."," ","N","e","a"," ","P","o","l","i","s",","," ","X","X","9","."," ","N","o","w","h","e","r","e">>
Line_Prose == <<"n","o"," ","c","i","t","i","e","s"," ","h","e","r","e">>
Line_Serbia == <<"S","R","1","."," ","N","a","i","s","s","u","s">>
Line_Greece == <<"G","R","7","."," ","A","t","h","e","n","s",","," ","I","T","4","."," ","C","u","m","a","e",";"," ","I","T","4","."," ","E","l","e","a",".">>

\* TR1. Assos, TR2. Kyme, TR3. Myra, TR4. Side, TR5. Teos, TR6. ... : eleven cities of one country.
Line_Many == <<"T","R","1","."," ","A","s","s","o","s",","," ","T","R","2","."," ","K","y","m","e",","," ","T","R","3","."," ","M","y","r","a",","," ","T","R","4","."," ","S","i","d","e",","," ","T","R","5","."," ","T","e","o","s",","," ","T","R","6","."," ","I","a","s","o","s",","," ","T","R","7","."," ","K","n","i","d","o","s",","," ","T","R","8","."," ","L","e","b","e","d","o","s",","," ","T","R","9","."," ","M","y","u","s",","," ","T","R","1","0","."," ","P","r","i","e","n","e",","," ","T","R","1","1","."," ","S","m","y","r","n","a">>

Lines == { Line_E2E, Line_TwoWord, Line_Prose, Line_Serbia, Line_Greece }

Code_TR == <<"T","R">>
Code_IT == <<"I","T">>
Code_SR == <<"S","R">>
Code_GR == <<"G","R">>

\* Rows (Key, Value) of the country code mapping.
Mapping_E2E == << <<Code_TR, "Turkey">>, <<Code_IT, "Italy">> >>
Mapping_Full == << <<Code_TR, "Turkey">>, <<Code_IT, "Italy">>,
                   <<Code_SR, "Serbia">>, <<Code_GR, "Greece">> >>

\* Rows (CountryName, CapitalLatitude, CapitalLongitude) of the geo table.
Geo_E2E == << <<"Turkey", "39.0", "35.0">>, <<"Italy", "42.5", "12.5">> >>
Geo_Full == << <<"Turkey", "39.0", "35.0">>, <<"Italy", "42.5", "12.5">>,
               <<"Serbia", "44.8", "20.5">>, <<"Greece", "38.0", "23.7">> >>


\* The country names of the tables.
CountryNames == { "Turkey", "Italy", "Serbia", "Greece" }

\* What the installed pandas and numpy decide: the order of rows of equal count
\* after the sort of value_counts (a ranking of the countries), and the outcome
\* of lines 95-99 on a table without rows ("ValueError" or "ok").  Serbia's
\* row is dropped after the sort, so its rank shows in no result: it is last.
Builds ==
    [ tie_rank : { r \in [CountryNames -> 1..Cardinality(CountryNames)] :
                     /\ \A a, b \in CountryNames : a # b => r[a] # r[b]
                     /\ r["Serbia"] = Cardinality(CountryNames) },
      empty_apply : { "ValueError", "ok" } ]


\* A call's outcome together with the file contents the call read.
Returned(r, lines, mapping, geo) ==
    [ status |-> r.status, rows |-> r.rows, opened |-> r.opened,
      read |-> [ txt |-> lines, mapping |-> mapping, geo |-> geo ] ]

\* No call made yet.
NoCall == [ status |-> "none", rows |-> << >>, opened |-> << >>, read |-> << >> ]

\* Both reference files in place and well formed.
FilesOk == [ mapping |-> "ok", geo |-> "ok" ]

\* No tool called yet.
NoTool == [ tool |-> "none", args |-> << >>, status |-> "none", result |-> << >> ]

\* No reply of the model scanned yet.
NoExtract == [ response |-> << >>, status |-> "none", result |-> << >> ]

\* No chat session started: nothing stored in the session, no message received,
\* none waiting for the model (pending is empty, or holds the one message and
\* the request built for it).
NoChat ==
    [ status |-> "none", chat_history |-> << >>, agent_context |-> << >>, received |-> 0,
      pending |-> << >>, llm |-> "none", handler |-> "none" ]

\* The Enhanced dashboard not created: the values of its three inputs, the
\* three outputs of its callback, the input that fired the callback last and
\* how that call ended.
NoEnhanced ==
    [ status |-> "none", country_selector |-> "ALL", n_clicks |-> 0, search_box |-> << >>,
      figure |-> << >>, data |-> << >>, info |-> << >>, triggered |-> "none",
      callback |-> "none" ]

\* The Professional dashboard not created: the values of its controls, the
\* selected-country-store, the outputs of its callback and the input that fired
\* the callback last.
NoProfessional ==
    [ status |-> "none", country_selector |-> "ALL", category_checklist |-> << >>,
      colony_range_slider |-> << 0, 0 >>, n_clicks |-> 0, store |-> "ALL",
      highlighted |-> "", filtered_records |-> << >>, data |-> << >>, columns |-> << >>,
      triggered |-> "none" ]

\* What the chat app, the dashboards and the record of calls hold before any of
\* them runs.
Idle ==
    /\ history = << >>
    /\ loads = 0
    /\ pipeline_runs = 0
    /\ tool_out = NoTool
    /\ extract = NoExtract
    /\ chat = NoChat
    /\ enhanced = NoEnhanced
    /\ professional = NoProfessional

\* The state of the chat session and of the two dashboards.
ui == <<extract, chat, enhanced, professional>>

app == <<history, loads, pipeline_runs, tool_out>>

Init ==
    /\ build \in Builds
    /\ txt_file \in (UNION { { t \in [1..n -> Lines] : \A i, j \in 1..n : i # j => t[i] # t[j] } : n \in 1..MaxLines })
    /\ \E ref \in { << Mapping_E2E, Geo_E2E >>, << Mapping_Full, Geo_E2E >>, << Mapping_Full, Geo_Full >> } : mapping_file = ref[1] /\ geo_file = ref[2]
    /\ cities_df = NoCall
    /\ clean_df = NoCall
    /\ df = NoCall
    /\ kept_rows = << >>
    /\ labelled_rows = << >>
    /\ file_state = FilesOk
    /\ Idle

\* cities_df = txt_to_dataframe(), as the dashboards and the chat app call it.
Call_txt_to_dataframe ==
    /\ cities_df' = Returned(txt_to_dataframe(txt_file, mapping_file),
                             txt_file, mapping_file, << >>)
    /\ UNCHANGED <<build, txt_file, mapping_file, geo_file, clean_df, df, kept_rows, labelled_rows,
                   file_state, app, ui>>

\* df = create_df_for_viz(); clean_df is its local per-city table (line 50).
Call_create_df_for_viz ==
    /\ LET call == create_df_for_viz(txt_file, mapping_file, geo_file)
       IN  /\ clean_df' = Returned(call.clean_df, txt_file, mapping_file, << >>)
           /\ df' = Returned(call.returns, txt_file, mapping_file, geo_file)
    /\ UNCHANGED <<build, txt_file, mapping_file, geo_file, cities_df, kept_rows, labelled_rows,
                   file_state, app, ui>>

Next == Call_txt_to_dataframe \/ Call_create_df_for_viz

Spec == Init /\ [][Next]_vars

(***************************************************************************)
(* SpecFiles: the two calls with reference files that may be missing or    *)
(* malformed.                                                              *)
(***************************************************************************)

FilesInit ==
    /\ build \in Builds
    /\ \E line \in Lines : txt_file = << line >>
    /\ file_state \in [ { "mapping", "geo" } -> { "ok", "missing", "unparsable", "no_columns" } ]
    /\ mapping_file = IF file_state.mapping = "ok" THEN Mapping_Full ELSE << >>
    /\ geo_file = IF file_state.geo = "ok" THEN Geo_E2E ELSE << >>
    /\ cities_df = NoCall
    /\ clean_df = NoCall
    /\ df = NoCall
    /\ kept_rows = << >>
    /\ labelled_rows = << >>
    /\ Idle

SpecFiles == FilesInit /\ [][Next]_vars

(***************************************************************************)
(* SpecCalls: calls of the pipeline one after the other, the files edited  *)
(* in between, with the record of each call and what it returned.          *)
(***************************************************************************)
\* The contents the three files are given: text, mapping, geo.
SessionFiles ==
    { << << Line_E2E >>, Mapping_Full, Geo_E2E >>,
      << << Line_Greece, Line_E2E >>, Mapping_Full, Geo_E2E >>,
      << << Line_Greece, Line_E2E >>, Mapping_E2E, Geo_Full >> }

CallsInit ==
    /\ build \in Builds
    /\ \E f \in SessionFiles : txt_file = f[1] /\ mapping_file = f[2] /\ geo_file = f[3]
    /\ file_state = FilesOk
    /\ cities_df = NoCall
    /\ clean_df = NoCall
    /\ df = NoCall
    /\ kept_rows = << >>
    /\ labelled_rows = << >>
    /\ Idle

\* cities_df = txt_to_dataframe(), recorded.
Recorded_txt_to_dataframe ==
    /\ Len(history) < MaxCalls
    /\ cities_df' = Returned(txt_to_dataframe(txt_file, mapping_file),
                             txt_file, mapping_file, << >>)
    /\ history' = Append(history, [ fn |-> "txt_to_dataframe", result |-> cities_df' ])
    /\ UNCHANGED <<build, txt_file, mapping_file, geo_file, clean_df, df, kept_rows, labelled_rows,
                   file_state, loads, pipeline_runs, tool_out, ui>>

\* df = create_df_for_viz(), recorded.
Recorded_create_df_for_viz ==
    /\ Len(history) < MaxCalls
    /\ LET call == create_df_for_viz(txt_file, mapping_file, geo_file)
       IN  /\ clean_df' = Returned(call.clean_df, txt_file, mapping_file, << >>)
           /\ df' = Returned(call.returns, txt_file, mapping_file, geo_file)
    /\ history' = Append(history, [ fn |-> "create_df_for_viz", result |-> df' ])
    /\ UNCHANGED <<build, txt_file, mapping_file, geo_file, cities_df, kept_rows, labelled_rows,
                   file_state, loads, pipeline_runs, tool_out, ui>>

\* The files are replaced between two calls.
Edit_files ==
    /\ Len(history) < MaxCalls
    /\ \E f \in SessionFiles :
           /\ << txt_file, mapping_file, geo_file >> # f
           /\ txt_file' = f[1] /\ mapping_file' = f[2] /\ geo_file' = f[3]
    /\ UNCHANGED <<build, cities_df, clean_df, df, kept_rows, labelled_rows, file_state, app, ui>>

CallsNext == Recorded_txt_to_dataframe \/ Recorded_create_df_for_viz \/ Edit_files

SpecCalls == CallsInit /\ [][CallsNext]_vars

(***************************************************************************)
(* The tools of agent_tools.py.  A table is the sequence of its rows; the   *)
(* per-city table has the columns of txt_to_dataframe, or, after the rename *)
(* of demo.py, Country and City in place of Country_Name and City_Name.     *)
(***************************************************************************)
\* The country and the city of a row of the per-city table: the column
\* "Country" / "City" if the table has one, else "Country Name" / "City Name".
country_col(row) == IF "Country" \in DOMAIN row THEN row.Country ELSE row.Country_Name
city_col(row) == IF "City" \in DOMAIN row THEN row.City ELSE row.City_Name

\* seq[:n]
head(seq, n) == SubSeq(seq, 1, IF Len(seq) < n THEN Len(seq) ELSE n)

\* df.nlargest(n, "No of Cities"): the n rows of the largest counts, rows of
\* equal count in table order (keep='first').
RECURSIVE InsertFirst(_, _), sort_stable(_)
InsertFirst(x, sorted) ==
    IF sorted = << >> THEN << x >>
    ELSE IF x.No_of_Cities >= Head(sorted).No_of_Cities THEN << x >> \o sorted
    ELSE << Head(sorted) >> \o InsertFirst(x, Tail(sorted))

sort_stable(table) ==
    IF table = << >> THEN << >> ELSE InsertFirst(Head(table), sort_stable(Tail(table)))

nlargest(table, n) == head(sort_stable(table), n)

RECURSIVE sum(_)
sum(col) == IF col = << >> THEN 0 ELSE Head(col) + sum(Tail(col))

\* The labels of assign_category, in the order of category_order (line 230).
category_order ==
    << "90+ colonies", "60 - 90 colonies", "30 - 60 colonies", "10 - 20 colonies",
       "Less than 10 colonies" >>

\* The number of rows of the table in the category.
CategorySize(table, cat) == Len(SelectSeq(table, LAMBDA r : r.Category = cat))

\* get_colony_statistics on a table with at least one row.  A mean or a
\* median is the fraction << numerator, denominator >>.
get_colony_statistics(table) ==
    LET counts == [ i \in 1..Len(table) |-> table[i].No_of_Cities ]
        sorted == sort_stable(table)
        n == Len(table)
        present == { category_order[k] : k \in { k \in 1..Len(category_order) :
                                                  CategorySize(table, category_order[k]) > 0 } }
    IN  [ total_colonies |-> sum(counts),
          total_countries |-> n,
          average_colonies |-> << sum(counts), n >>,
          median_colonies |-> IF n % 2 = 1 THEN << sorted[(n + 1) \div 2].No_of_Cities, 1 >>
                              ELSE << sorted[n \div 2].No_of_Cities
                                        + sorted[(n \div 2) + 1].No_of_Cities, 2 >>,
          max_colonies |-> sorted[1].No_of_Cities,
          min_colonies |-> sorted[n].No_of_Cities,
          top_5_countries |-> [ i \in 1..Len(nlargest(table, 5)) |->
                                  [ Country |-> nlargest(table, 5)[i].Country,
                                    No_of_Cities |-> nlargest(table, 5)[i].No_of_Cities ] ],
          category_distribution |-> [ cat \in present |-> CategorySize(table, cat) ] ]

\* get_country_details without the cut of the list of cities at ten.
get_country_details_uncut(table, cities, country) ==
    LET country_data == SelectSeq(table, LAMBDA r : r.Country = country)
        of_country == SelectSeq(cities, LAMBDA r : country_col(r) = country)
        names == [ i \in 1..Len(of_country) |-> city_col(of_country[i]) ]
    IN  IF country_data = << >> THEN << >>
        ELSE << [ country |-> country,
                  num_colonies |-> country_data[1].No_of_Cities,
                  category |-> country_data[1].Category,
                  latitude |-> country_data[1].Latitude,
                  longitude |-> country_data[1].Longitude,
                  cities |-> names,
                  total_cities |-> Len(names) ] >>

\* get_country_details that counts the cities it lists.
get_country_details_counts_listed(table, cities, country) ==
    LET country_data == SelectSeq(table, LAMBDA r : r.Country = country)
        of_country == SelectSeq(cities, LAMBDA r : country_col(r) = country)
        names == [ i \in 1..Len(of_country) |-> city_col(of_country[i]) ]
    IN  IF country_data = << >> THEN << >>
        ELSE << [ country |-> country,
                  num_colonies |-> country_data[1].No_of_Cities,
                  category |-> country_data[1].Category,
                  latitude |-> country_data[1].Latitude,
                  longitude |-> country_data[1].Longitude,
                  cities |-> head(names, 10),
                  total_cities |-> Len(head(names, 10)) ] >>

\* get_country_details: None is the empty sequence, a dictionary of details a
\* sequence of one record.
get_country_details(table, cities, country) ==
    LET country_data == SelectSeq(table, LAMBDA r : r.Country = country)
        of_country == SelectSeq(cities, LAMBDA r : country_col(r) = country)
        names == [ i \in 1..Len(of_country) |-> city_col(of_country[i]) ]
    IN  IF country_data = << >> THEN << >>
        ELSE << [ country |-> country,
                  num_colonies |-> country_data[1].No_of_Cities,
                  category |-> country_data[1].Category,
                  latitude |-> country_data[1].Latitude,
                  longitude |-> country_data[1].Longitude,
                  cities |-> head(names, 10),
                  total_cities |-> Len(names) ] >>

\* The two cases of a letter.
CasePairs == { {"A","a"}, {"B","b"}, {"C","c"}, {"D","d"}, {"E","e"}, {"F","f"}, {"G","g"}, {"H","h"}, {"I","i"}, {"J","j"}, {"K","k"}, {"L","l"}, {"M","m"}, {"N","n"}, {"O","o"}, {"P","p"}, {"Q","q"}, {"R","r"}, {"S","s"}, {"T","t"}, {"U","u"}, {"V","v"}, {"W","w"}, {"X","x"}, {"Y","y"}, {"Z","z"} }


\* re.compile(query, re.IGNORECASE) for a query of letters, blanks, "/", "."
\* and "(": a letter stands for its two cases, "." for any character, and a
\* "(" opens a group that nothing closes, which is an error of the pattern.
compile(query) ==
    IF \E i \in 1..Len(query) : query[i] = "("
    THEN [ status |-> "re.error", pattern |-> << >> ]
    ELSE [ status |-> "ok",
           pattern |-> [ i \in 1..Len(query) |->
                           IF query[i] = "." THEN Item((Letter \cup Digit \cup Whitespace \cup { ".", "/", ",", ";", "(" }), 1, FALSE, TRUE)
                           ELSE IF query[i] \in Letter
                           THEN Item(CHOOSE pair \in CasePairs : query[i] \in pair, 1, FALSE, TRUE)
                           ELSE Item({ query[i] }, 1, FALSE, TRUE) ] ]

\* Whether the pattern matches somewhere in s (re.search).
contains(pat, s) == \E i \in 1..(Len(s) + 1) : MatchFrom(pat, 1, s, i) # -1

\* search_colonies: str.contains takes the query as a pattern (regex=True is
\* its default); every row has a city name, so na=False decides for no row.
search_colonies(cities, query) ==
    LET compiled == compile(query)
        mask(r) == contains(compiled.pattern, city_col(r))
        results == head(SelectSeq(cities, mask), 20)
    IN  IF compiled.status # "ok" THEN [ status |-> compiled.status, result |-> << >> ]
        ELSE [ status |-> "ok",
               result |-> [ i \in 1..Len(results) |->
                              [ Country |-> country_col(results[i]),
                                City |-> city_col(results[i]) ] ] ]

\* A sequence of characters as one string.
RECURSIVE Str(_)
Str(cs) == IF cs = << >> THEN "" ELSE Head(cs) \o Str(Tail(cs))

\* ", ".join(names)
RECURSIVE join(_)
join(names) ==
    IF names = << >> THEN ""
    ELSE IF Len(names) = 1 THEN Str(names[1])
    ELSE Str(names[1]) \o ", " \o join(Tail(names))

\* The details of the requested countries that have some (lines 89-92).
RECURSIVE comparison_data_of(_, _, _)
comparison_data_of(table, cities, countries) ==
    IF countries = << >> THEN << >>
    ELSE get_country_details(table, cities, Head(countries))
           \o comparison_data_of(table, cities, Tail(countries))

\* comparison_lines that shows every listed city of a country.
RECURSIVE comparison_lines_all_cities(_)
comparison_lines_all_cities(data) ==
    IF data = << >> THEN ""
    ELSE "| " \o Head(data).country \o " | " \o astype_str(Head(data).num_colonies) \o " | "
           \o Head(data).category \o " | " \o join(Head(data).cities) \o "... |\n"
           \o comparison_lines_all_cities(Tail(data))

RECURSIVE comparison_lines(_)
comparison_lines(data) ==
    IF data = << >> THEN ""
    ELSE "| " \o Head(data).country \o " | " \o astype_str(Head(data).num_colonies) \o " | "
           \o Head(data).category \o " | " \o join(head(Head(data).cities, 3)) \o "... |\n"
           \o comparison_lines(Tail(data))

compare_countries(table, cities, countries) ==
    LET comparison_data == comparison_data_of(table, cities, countries)
    IN  IF comparison_data = << >> THEN "No data found for the specified countries."
        ELSE "## Country Comparison\n\n"
               \o "| Country | Colonies | Category | Sample Cities |\n"
               \o "|---------|----------|----------|---------------|\n"
               \o comparison_lines(comparison_data)

\* The table the map is drawn from (lines 121-130): marker_size counts half
\* units, 30 for one city, and half as much again for the selected country.
plot_df_of(table, selected_country) ==
    LET selected == /\ selected_country # ""
                    /\ \E i \in 1..Len(table) : table[i].Country = selected_country
    IN  [ i \in 1..Len(table) |->
            [ Country |-> table[i].Country,
              No_of_Cities |-> table[i].No_of_Cities,
              Latitude |-> table[i].Latitude,
              Longitude |-> table[i].Longitude,
              Category |-> table[i].Category,
              Trace_Text |-> table[i].Trace_Text,
              marker_size |-> IF selected /\ table[i].Country = selected_country
                              THEN table[i].No_of_Cities * 45
                              ELSE table[i].No_of_Cities * 30,
              marker_opacity |-> IF selected /\ table[i].Country # selected_country
                                 THEN "0.25" ELSE "0.85" ] ]

\* generate_map_visualization that adds its columns to the table it is given
\* (plot_df = df in place of plot_df = df.copy()).
generate_map_visualization_in_place(table, params) ==
    [ df |-> plot_df_of(table, params.country),
      fig |-> [ plot_df |-> plot_df_of(table, params.country),
                projection |-> params.projection ] ]

\* generate_map_visualization: the table of the caller after the call, and
\* the figure.
generate_map_visualization(table, params) ==
    [ df |-> table,
      fig |-> [ plot_df |-> plot_df_of(table, params.country),
                projection |-> params.projection ] ]

generate_bar_chart(table, params) ==
    LET df_sorted == nlargest(table, params.top_n)
    IN  [ x |-> [ i \in 1..Len(df_sorted) |-> df_sorted[i].Country ],
          y |-> [ i \in 1..Len(df_sorted) |-> df_sorted[i].No_of_Cities ],
          colors |-> [ i \in 1..Len(df_sorted) |->
                         IF params.country # "" /\ df_sorted[i].Country = params.country
                         THEN "#E67E22" ELSE "#2A8CCB" ],
          title |-> "<b>Top " \o astype_str(params.top_n) \o " Regions by Colony Count</b>" ]

generate_category_distribution(table) ==
    [ x |-> category_order,
      y |-> [ k \in 1..Len(category_order) |-> CategorySize(table, category_order[k]) ] ]

(***************************************************************************)
(* SpecApp: the data loaded by load_data of app.py, or by main of demo.py, *)
(* and the tools called on the loaded tables.                              *)
(***************************************************************************)
AppFiles ==
    { << << Line_Greece, Line_Serbia >>, Mapping_Full, Geo_Full >>,
      << << Line_Many >>, Mapping_Full, Geo_E2E >>,
      << << Line_E2E, Line_TwoWord >>, Mapping_E2E, Geo_E2E >> }

AppInit ==
    /\ build \in Builds
    /\ \E f \in AppFiles : txt_file = f[1] /\ mapping_file = f[2] /\ geo_file = f[3]
    /\ file_state = FilesOk
    /\ cities_df = NoCall
    /\ clean_df = NoCall
    /\ df = NoCall
    /\ kept_rows = << >>
    /\ labelled_rows = << >>
    /\ Idle

\* df, cities_df = load_data() (app.py line 169): the two calls of the
\* pipeline, one after the other; an error of the first ends load_data.
Call_load_data ==
    /\ loads < MaxLoads
    /\ cities_df.status = "none" \/ loads > 0
    /\ LET call == create_df_for_viz(txt_file, mapping_file, geo_file)
       IN  /\ clean_df' = Returned(call.clean_df, txt_file, mapping_file, << >>)
           /\ df' = Returned(call.returns, txt_file, mapping_file, geo_file)
           /\ cities_df' = IF call.returns.status # "ok" THEN NoCall
                           ELSE Returned(txt_to_dataframe(txt_file, mapping_file),
                                         txt_file, mapping_file, << >>)
    /\ loads' = loads + 1
    /\ pipeline_runs' = pipeline_runs + 1
    /\ UNCHANGED <<build, txt_file, mapping_file, geo_file, kept_rows, labelled_rows,
                   file_state, history, tool_out, ui>>

\* cities_df.rename(columns={"Country Name": "Country", "City Name": "City"})
rename(cities) ==
    [ i \in 1..Len(cities) |->
        [ City_Code_and_Name |-> cities[i].City_Code_and_Name,
          City_Code |-> cities[i].City_Code,
          Country_Code |-> cities[i].Country_Code,
          City |-> cities[i].City_Name,
          Country |-> cities[i].Country_Name ] ]

\* The loading of demo.py (lines 37-39), at the start of the demo.
Load_demo ==
    /\ loads = 0 /\ pipeline_runs = 0
    /\ LET call == create_df_for_viz(txt_file, mapping_file, geo_file)
           cities == txt_to_dataframe(txt_file, mapping_file)
       IN  /\ clean_df' = Returned(call.clean_df, txt_file, mapping_file, << >>)
           /\ df' = Returned(call.returns, txt_file, mapping_file, geo_file)
           /\ cities_df' = IF call.returns.status # "ok" THEN NoCall
                           ELSE Returned([ cities EXCEPT !.rows = rename(cities.rows) ],
                                         txt_file, mapping_file, << >>)
    /\ pipeline_runs' = pipeline_runs + 1
    /\ UNCHANGED <<build, txt_file, mapping_file, geo_file, kept_rows, labelled_rows,
                   file_state, history, loads, tool_out, ui>>

\* The tables are loaded.
Loaded == df.status = "ok" /\ cities_df.status = "ok"


frame == <<build, txt_file, mapping_file, geo_file, clean_df, kept_rows, labelled_rows,
           file_state, history, loads, pipeline_runs, ui>>

Call_get_colony_statistics ==
    /\ Loaded
    /\ tool_out' = [ tool |-> "get_colony_statistics", args |-> << >>, status |-> "ok",
                     result |-> get_colony_statistics(df.rows) ]
    /\ UNCHANGED <<df, cities_df, frame>>

Call_get_country_details ==
    /\ Loaded
    /\ \E country \in (CountryNames \cup { "Atlantis" }) :
           tool_out' = [ tool |-> "get_country_details", args |-> country, status |-> "ok",
                         result |-> get_country_details(df.rows, cities_df.rows, country) ]
    /\ UNCHANGED <<df, cities_df, frame>>

Call_search_colonies ==
    /\ Loaded
    /\ \E query \in { << >>, <<"a","p","o","l","l">>, <<"N","E","A">>, <<"s","/">>, <<"o","s">>, <<".">>, <<"(">>, <<"a",".","o">> } :
           LET r == search_colonies(cities_df.rows, query)
           IN  tool_out' = [ tool |-> "search_colonies", args |-> query, status |-> r.status,
                             result |-> r.result ]
    /\ UNCHANGED <<df, cities_df, frame>>

Call_compare_countries ==
    /\ Loaded
    /\ \E countries \in { << >>, << "Atlantis" >>, << "Italy", "Turkey" >>, << "Serbia", "Greece", "Italy" >>, << "Turkey", "Atlantis", "Turkey" >> } :
           tool_out' = [ tool |-> "compare_countries", args |-> countries, status |-> "ok",
                         result |-> compare_countries(df.rows, cities_df.rows, countries) ]
    /\ UNCHANGED <<df, cities_df, frame>>

Call_generate_map_visualization ==
    /\ Loaded
    /\ \E params \in [ country : { "", "Turkey", "Atlantis" }, projection : { "natural earth" } ] :
           LET r == generate_map_visualization(df.rows, params)
           IN  /\ df' = [ df EXCEPT !.rows = r.df ]
               /\ tool_out' = [ tool |-> "generate_map_visualization", args |-> params,
                                status |-> "ok", result |-> r.fig ]
    /\ UNCHANGED <<cities_df, frame>>

Call_generate_bar_chart ==
    /\ Loaded
    /\ \E params \in [ country : { "", "Italy" }, top_n : { 1, 10 } ] :
           tool_out' = [ tool |-> "generate_bar_chart", args |-> params, status |-> "ok",
                         result |-> generate_bar_chart(df.rows, params) ]
    /\ UNCHANGED <<df, cities_df, frame>>

Call_generate_category_distribution ==
    /\ Loaded
    /\ tool_out' = [ tool |-> "generate_category_distribution", args |-> << >>,
                     status |-> "ok", result |-> generate_category_distribution(df.rows) ]
    /\ UNCHANGED <<df, cities_df, frame>>

AppNext ==
    \/ Call_load_data
    \/ Load_demo
    \/ Call_get_colony_statistics
    \/ Call_get_country_details
    \/ Call_search_colonies
    \/ Call_compare_countries
    \/ Call_generate_map_visualization
    \/ Call_generate_bar_chart
    \/ Call_generate_category_distribution

SpecApp == AppInit /\ [][AppNext]_vars

(***************************************************************************)
(* SpecRow: lines 95-99 applied to a one-row table kept after line 72,     *)
(* of any city count.                                                      *)
(***************************************************************************)

RowInit ==
    /\ build \in Builds
    /\ txt_file = << Line_E2E >>
    /\ mapping_file = Mapping_E2E
    /\ geo_file = Geo_E2E
    /\ cities_df = NoCall
    /\ clean_df = NoCall
    /\ df = NoCall
    /\ \E c \in { "Turkey", "Italy", "Greece" }, n \in 1..MaxCount, known \in BOOLEAN :
           kept_rows = << [ Country |-> c, No_of_Cities |-> n,
                            Latitude |-> IF known THEN "39.0" ELSE NaN,
                            Longitude |-> IF known THEN "35.0" ELSE NaN ] >>
    /\ labelled_rows = << >>
    /\ file_state = FilesOk
    /\ Idle

Apply_row_columns ==
    /\ labelled_rows = << >>
    /\ labelled_rows' = add_category_and_text(kept_rows)
    /\ UNCHANGED <<build, txt_file, mapping_file, geo_file, cities_df, clean_df, df, kept_rows,
                   file_state, app, ui>>


SpecRow == RowInit /\ [][Apply_row_columns]_vars

(***************************************************************************)
(* extract_visualization_request of app.py.  A reply of the model is a     *)
(* sequence of characters; Python's indices count from 0, and -1 is "not   *)
(* found".                                                                 *)
(***************************************************************************)
Quote == "\""
\* The fence of three backquotes; a TLA+ string cannot hold the backquote, which
\* is written by its name.
FENCE == << "BACKQUOTE", "BACKQUOTE", "BACKQUOTE" >>
FENCE_JSON == FENCE \o << "j", "s", "o", "n" >>

\* str.find(sub, start): the lowest index at or after start where sub occurs.
find(s, sub, start) ==
    LET hits == { i \in start..(Len(s) - Len(sub)) : SubSeq(s, i + 1, i + Len(sub)) = sub }
    IN  IF hits = { } THEN -1 ELSE CHOOSE i \in hits : \A j \in hits : i <= j

\* s[start:end] of Python, a negative end counting from the end of s.
slice(s, start, end) ==
    LET stop == IF end < 0 THEN (IF end + Len(s) < 0 THEN 0 ELSE end + Len(s))
                ELSE (IF end > Len(s) THEN Len(s) ELSE end)
    IN  IF start >= stop THEN << >> ELSE SubSeq(s, start + 1, stop)

\* A value of json.loads: its type, the text of a string, a number or a
\* literal, the items of a list or the values of a dictionary, and the keys
\* of a dictionary.
JsonValue(type, text, items, keys) ==
    [ type |-> type, text |-> text, items |-> items, keys |-> keys ]


\* The character at position i, the empty string past the end.
At(s, i) == IF i >= 1 /\ i <= Len(s) THEN s[i] ELSE ""

SkipWhitespace(s, i) == i + RunLen({ " ", "\t", "\n", "\r" }, s, i, Len(s))

\* The scanner of the json module on the documents of the catalogue: a value
\* at position i is parsed to [ok, value, next], next the position after it.
NoValue == [ ok |-> FALSE, value |-> JsonValue("null", << >>, << >>, << >>), next |-> 0 ]
Parsed(v, next) == [ ok |-> TRUE, value |-> v, next |-> next ]

scan_string(s, i) ==
    LET n == RunLen(Letter \cup Digit \cup { " ", "_" }, s, i + 1, Len(s))
    IN  IF At(s, i) = Quote /\ At(s, i + 1 + n) = Quote
        THEN Parsed(JsonValue("str", SubSeq(s, i + 1, i + n), << >>, << >>), i + n + 2)
        ELSE NoValue

scan_number(s, i) ==
    LET n == IF At(s, i) = "0" THEN 1 ELSE RunLen(Digit, s, i, Len(s))
    IN  IF n = 0 THEN NoValue
        ELSE Parsed(JsonValue("int", SubSeq(s, i, i + n - 1), << >>, << >>), i + n)

scan_literal(s, i) ==
    LET hits == { l \in { << "n", "u", "l", "l" >>, << "t", "r", "u", "e" >>, << "f", "a", "l", "s", "e" >> } : i >= 1 /\ i + Len(l) - 1 <= Len(s)
                                      /\ SubSeq(s, i, i + Len(l) - 1) = l }
    IN  IF hits = { } THEN NoValue
        ELSE LET l == CHOOSE l \in hits : TRUE
             IN  Parsed(JsonValue(IF l = << "n", "u", "l", "l" >> THEN "null" ELSE "bool",
                                  l, << >>, << >>), i + Len(l))

RECURSIVE scan_once(_, _), scan_array(_, _, _), scan_object(_, _, _, _)
scan_once(s, i) ==
    CASE At(s, i) = Quote -> scan_string(s, i)
      [] At(s, i) = "[" ->
           IF At(s, SkipWhitespace(s, i + 1)) = "]"
           THEN Parsed(JsonValue("list", << >>, << >>, << >>), SkipWhitespace(s, i + 1) + 1)
           ELSE scan_array(s, i + 1, << >>)
      [] At(s, i) = "{" ->
           IF At(s, SkipWhitespace(s, i + 1)) = "}"
           THEN Parsed(JsonValue("dict", << >>, << >>, << >>), SkipWhitespace(s, i + 1) + 1)
           ELSE scan_object(s, i + 1, << >>, << >>)
      [] At(s, i) \in Digit -> scan_number(s, i)
      [] OTHER -> scan_literal(s, i)

\* The items of a list after "[" or ",": a value, then "," or "]".
scan_array(s, i, items) ==
    LET item == scan_once(s, SkipWhitespace(s, i))
        after == SkipWhitespace(s, item.next)
    IN  IF ~ item.ok THEN NoValue
        ELSE CASE At(s, after) = "," -> scan_array(s, after + 1, Append(items, item.value))
               [] At(s, after) = "]" ->
                    Parsed(JsonValue("list", << >>, Append(items, item.value), << >>), after + 1)
               [] OTHER -> NoValue

\* The members of a dictionary after "{" or ",": a string, ":", a value, then
\* "," or "}".
scan_object(s, i, keys, items) ==
    LET key == scan_string(s, SkipWhitespace(s, i))
        colon == SkipWhitespace(s, key.next)
        item == scan_once(s, SkipWhitespace(s, colon + 1))
        after == SkipWhitespace(s, item.next)
    IN  IF ~ key.ok \/ At(s, colon) # ":" THEN NoValue
        ELSE IF ~ item.ok THEN NoValue
        ELSE CASE At(s, after) = "," ->
                    scan_object(s, after + 1, Append(keys, key.value.text),
                                Append(items, item.value))
               [] At(s, after) = "}" ->
                    Parsed(JsonValue("dict", << >>, Append(items, item.value),
                                     Append(keys, key.value.text)), after + 1)
               [] OTHER -> NoValue

\* json.loads: one value with whitespace around it and nothing after it;
\* anything else is a JSONDecodeError.
json_loads(s) ==
    LET parsed == scan_once(s, SkipWhitespace(s, 1))
    IN  IF parsed.ok /\ SkipWhitespace(s, parsed.next) = Len(s) + 1
        THEN [ status |-> "ok", value |-> parsed.value ]
        ELSE [ status |-> "JSONDecodeError", value |-> NoValue.value ]

VISUALIZATION == << "v", "i", "s", "u", "a", "l", "i", "z", "a", "t", "i", "o", "n" >>

\* "visualization" in viz_request: a key of a dictionary, an item of a list,
\* a part of a string; the other values are not containers (TypeError).
in_visualization(value) ==
    CASE value.type = "dict" ->
           [ status |-> "ok", holds |-> \E k \in 1..Len(value.keys) : value.keys[k] = VISUALIZATION ]
      [] value.type = "list" ->
           [ status |-> "ok",
             holds |-> \E k \in 1..Len(value.items) :
                           value.items[k].type = "str" /\ value.items[k].text = VISUALIZATION ]
      [] value.type = "str" ->
           [ status |-> "ok", holds |-> find(value.text, VISUALIZATION, 0) # -1 ]
      [] OTHER -> [ status |-> "TypeError", holds |-> FALSE ]

\* extract_visualization_request(response): how the call ends, and what it
\* returns (None is the empty sequence).
extract_visualization_request(response) ==
    LET start == find(response, FENCE_JSON, 0) + 7
        end == find(response, FENCE, start)
        json_str == strip(slice(response, start, end))
        viz_request == json_loads(json_str)
        found == in_visualization(viz_request.value)
    IN  IF find(response, FENCE_JSON, 0) = -1 THEN [ status |-> "ok", result |-> << >> ]
        ELSE IF viz_request.status # "ok" THEN [ status |-> "ok", result |-> << >> ]
        ELSE IF found.status # "ok" THEN [ status |-> found.status, result |-> << >> ]
        ELSE IF found.holds THEN [ status |-> "ok", result |-> << viz_request.value >> ]
        ELSE [ status |-> "ok", result |-> << >> ]

\* The content of a json block that asks for a map: {"visualization": "map"}
Content_Map ==
    << "{", Quote, "v", "i", "s", "u", "a", "l", "i", "z", "a", "t", "i", "o", "n",
       Quote, ":", " ", Quote, "m", "a", "p", Quote, "}" >>

\* The content of a json block that is the number 5.
Content_Number ==
    << "5" >>

\* A reply with no fence.
Reply_Hello ==
    << "H", "e", "l", "l", "o" >>

(***************************************************************************)
(* SpecExtract: extract_visualization_request applied to one reply.        *)
(***************************************************************************)
\* What a json block holds: the two contents above and, in turn, a request
\* with parameters, an object without the key, two texts that are no JSON, no
\* character at all, null, true, the string "visualization", another string, a
\* list holding that string and a list of numbers.
Contents ==
    { Content_Map, Content_Number,
      << "{", Quote, "v", "i", "s", "u", "a", "l", "i", "z", "a", "t", "i", "o", "n",
         Quote, ":", " ", Quote, "b", "a", "r", Quote, ",", " ", Quote, "p", "a", "r",
         "a", "m", "e", "t", "e", "r", "s", Quote, ":", " ", "{", Quote, "t", "o", "p",
         Quote, ":", " ", "5", "}", "}" >>,
      << "{", Quote, "c", "h", "a", "r", "t", Quote, ":", " ", Quote, "m", "a", "p",
         Quote, "}" >>,
      << "{", "o", "o", "p", "s", "}" >>,
      << "[", "1", ",", "]" >>,
      << >>,
      << "n", "u", "l", "l" >>,
      << "t", "r", "u", "e" >>,
      << Quote, "v", "i", "s", "u", "a", "l", "i", "z", "a", "t", "i", "o", "n",
         Quote >>,
      << Quote, "m", "a", "p", Quote >>,
      << "[", Quote, "v", "i", "s", "u", "a", "l", "i", "z", "a", "t", "i", "o", "n",
         Quote, "]" >>,
      << "[", "1", ",", " ", "2", "]" >> }

\* The replies: a json block (the fence, a content, the closing fence or none),
\* text before it or none, a second block after it or none; and three replies
\* without a json fence (plain text, a request outside any fence, another
\* fence).
Responses ==
    { prefix \o FENCE_JSON \o << " " >> \o content \o << " " >> \o closing \o suffix :
          prefix \in { << >>, << "S", "e", "e", ":", " " >> },
          content \in Contents,
          closing \in { FENCE, << >> },
          suffix \in { << >>,
                       << " ", "t", "h", "e", "n", " " >> \o FENCE_JSON \o << " " >>
                         \o Content_Map \o << " " >> \o FENCE } }
      \cup { Reply_Hello, Content_Map, FENCE \o << " ", "c", "o", "d", "e", " " >> \o FENCE }

ExtractInit ==
    /\ build = CHOOSE b \in Builds : TRUE
    /\ txt_file = << Line_E2E >>
    /\ mapping_file = Mapping_E2E
    /\ geo_file = Geo_E2E
    /\ cities_df = NoCall
    /\ clean_df = NoCall
    /\ df = NoCall
    /\ kept_rows = << >>
    /\ labelled_rows = << >>
    /\ file_state = FilesOk
    /\ history = << >>
    /\ loads = 0
    /\ pipeline_runs = 0
    /\ tool_out = NoTool
    /\ \E response \in Responses : extract = [ NoExtract EXCEPT !.response = response ]
    /\ chat = NoChat
    /\ enhanced = NoEnhanced
    /\ professional = NoProfessional

pipeline == <<build, txt_file, mapping_file, geo_file, cities_df, clean_df, df, kept_rows,
              labelled_rows, file_state>>

\* viz_request = extract_visualization_request(response), line 283 of app.py.
Call_extract_visualization_request ==
    /\ extract.status = "none"
    /\ LET call == extract_visualization_request(extract.response)
       IN  extract' = [ extract EXCEPT !.status = call.status, !.result = call.result ]
    /\ UNCHANGED <<pipeline, app, chat, enhanced, professional>>


SpecExtract == ExtractInit /\ [][Call_extract_visualization_request]_vars


(***************************************************************************)
(* The chat session of app.py: start (on_chat_start) and main (on_message). *)
(* A message is a record of a role and a content, the content a sequence   *)
(* of characters and words.                                                *)
(***************************************************************************)
\* config.py, line 116.
MAX_CHAT_HISTORY == 20

\* create_agent_context(df, cities_df): the totals of lines 66-67 in the text.
create_agent_context(table) ==
    << "Total Colonies: ", astype_str(sum([ i \in 1..Len(table) |-> table[i].No_of_Cities ])),
       "Total Countries/Regions: ", astype_str(Len(table)) >>

\* The request that sends the oldest messages of the history, chat_history[:n].
build_messages_oldest(agent_context, chat_history, user_message) ==
    << [ role |-> "system", content |-> << "AGENT_SYSTEM_PROMPT", "\n" >> \o agent_context ] >>
      \o (IF Len(chat_history) <= MAX_CHAT_HISTORY THEN chat_history
          ELSE SubSeq(chat_history, 1, MAX_CHAT_HISTORY))
      \o << [ role |-> "user", content |-> user_message ] >>

\* Lines 263-271: the messages sent to the model, chat_history[-n:] the last n
\* messages of the history.
build_messages(agent_context, chat_history, user_message) ==
    << [ role |-> "system", content |-> << "AGENT_SYSTEM_PROMPT", "\n" >> \o agent_context ] >>
      \o (IF Len(chat_history) <= MAX_CHAT_HISTORY THEN chat_history
          ELSE SubSeq(chat_history, Len(chat_history) - MAX_CHAT_HISTORY + 1,
                      Len(chat_history)))
      \o << [ role |-> "user", content |-> user_message ] >>

\* The update that stores the reply alone.
update_chat_history_reply_only(chat_history, user_message, response) ==
    Append(chat_history, [ role |-> "assistant", content |-> response ])

\* Lines 278-280: the two appends after the model has answered.
update_chat_history(chat_history, user_message, response) ==
    Append(Append(chat_history, [ role |-> "user", content |-> user_message ]),
           [ role |-> "assistant", content |-> response ])

\* The conversation: the n-th message of the user is "q" and n; what the model
\* answers to it when it answers is plain text, a request for a map, or a json
\* block holding a number.
Completion(n) ==
    << "a", astype_str(n), " " >>
      \o (CASE n % 3 = 1 -> Reply_Hello
            [] n % 3 = 2 -> FENCE_JSON \o << " " >> \o Content_Map \o << " " >> \o FENCE
            [] OTHER -> FENCE_JSON \o << " " >> \o Content_Number \o << " " >> \o FENCE)


(***************************************************************************)
(* SpecChat: one chat session, from its start through its messages.        *)
(***************************************************************************)
ChatInit ==
    /\ build = CHOOSE b \in Builds : TRUE
    /\ txt_file = << Line_Greece, Line_Serbia >>
    /\ mapping_file = Mapping_Full
    /\ geo_file = Geo_Full
    /\ file_state = FilesOk
    /\ cities_df = NoCall
    /\ clean_df = NoCall
    /\ df = NoCall
    /\ kept_rows = << >>
    /\ labelled_rows = << >>
    /\ Idle

\* start (lines 165-190): load_data, then the client; without the API key the
\* handler returns at line 180 and stores nothing in the session.
Start_chat ==
    /\ chat.status = "none"
    /\ LET call == create_df_for_viz(txt_file, mapping_file, geo_file)
           loaded == call.returns.status = "ok"
       IN  /\ clean_df' = Returned(call.clean_df, txt_file, mapping_file, << >>)
           /\ df' = Returned(call.returns, txt_file, mapping_file, geo_file)
           /\ cities_df' = IF ~ loaded THEN NoCall
                           ELSE Returned(txt_to_dataframe(txt_file, mapping_file),
                                         txt_file, mapping_file, << >>)
           /\ \E api_key \in BOOLEAN :
                  chat' = IF loaded /\ api_key
                          THEN [ chat EXCEPT !.status = "ready", !.chat_history = << >>,
                                             !.agent_context =
                                                 << create_agent_context(call.returns.rows) >> ]
                          ELSE [ chat EXCEPT !.status = "unconfigured" ]
    /\ loads' = loads + 1
    /\ pipeline_runs' = pipeline_runs + 1
    /\ UNCHANGED <<build, txt_file, mapping_file, geo_file, kept_rows, labelled_rows,
                   file_state, history, tool_out, extract, enhanced, professional>>

\* main up to the call of the model (lines 254-275).  With no agent_context
\* in the session line 264 adds None to a string: a TypeError outside the try.
Receive_message ==
    /\ chat.status # "none"
    /\ chat.pending = << >>
    /\ chat.received < MaxMessages
    /\ LET user_message == << "q", astype_str(chat.received + 1) >>
       IN  chat' = IF chat.agent_context = << >>
                   THEN [ chat EXCEPT !.received = @ + 1, !.llm = "none",
                                      !.handler = "TypeError" ]
                   ELSE [ chat EXCEPT !.received = @ + 1, !.llm = "called",
                                      !.handler = "running",
                                      !.pending =
                                          << [ user_message |-> user_message,
                                               messages |-> build_messages(chat.agent_context[1],
                                                                           chat.chat_history,
                                                                           user_message) ] >> ]
    /\ UNCHANGED <<pipeline, app, extract, enhanced, professional>>

\* main after the model has answered (lines 275-285): the history, then the
\* request of a visualization; an error of line 283 or 285 is caught at line
\* 287.
Model_answers ==
    /\ chat.pending # << >>
    /\ \E response \in { Completion(chat.received) } :
       \E call \in { extract_visualization_request(response) } :
       LET viz_request == call.result[1]
           \* viz_request.get("visualization"), line 295.
           viz_type == { viz_request.items[k].text :
                            k \in { k \in 1..Len(viz_request.keys) :
                                        viz_request.keys[k] = VISUALIZATION } }
           map == /\ call.status = "ok" /\ call.result # << >>
                  /\ viz_type = { << "m", "a", "p" >> }
           drawn == generate_map_visualization(df.rows, [ country |-> "", projection |-> "natural earth" ])
       IN  /\ chat' = [ chat EXCEPT !.chat_history =
                                        update_chat_history(@, chat.pending[1].user_message,
                                                            response),
                                    !.pending = << >>, !.llm = "ok",
                                    !.handler = IF call.status = "ok" THEN "ok" ELSE "error" ]
           /\ extract' = [ response |-> response, status |-> call.status,
                           result |-> call.result ]
           /\ df' = IF map THEN [ df EXCEPT !.rows = drawn.df ] ELSE df
           /\ tool_out' = IF map
                          THEN [ tool |-> "generate_map_visualization", args |-> [ country |-> "", projection |-> "natural earth" ],
                                 status |-> "ok", result |-> drawn.fig ]
                          ELSE tool_out
    /\ UNCHANGED <<build, txt_file, mapping_file, geo_file, cities_df, clean_df, kept_rows,
                   labelled_rows, file_state, history, loads, pipeline_runs, enhanced,
                   professional>>

\* The call of the model raises (lines 137-140): main reports the error at
\* line 287.
Model_fails ==
    /\ chat.pending # << >>
    /\ chat' = [ chat EXCEPT !.pending = << >>, !.llm = "error", !.handler = "error" ]
    /\ UNCHANGED <<pipeline, app, extract, enhanced, professional>>

ChatNext == Start_chat \/ Receive_message \/ Model_answers \/ Model_fails

SpecChat == ChatInit /\ [][ChatNext]_vars


(***************************************************************************)
(* The Enhanced dashboard (GR03B_Greek_Colonies_Dashboard_Enhanced.py):    *)
(* create_enhanced_app and its callback update_visualization.  No country  *)
(* selected (None) is the empty string; a size is in points, an opacity in *)
(* tenths.                                                                 *)
(***************************************************************************)
\* Line 27: cities_df[['Country Name', 'City Name']].copy()
cities_only_df(cities) ==
    [ i \in 1..Len(cities) |->
        [ Country_Name |-> cities[i].Country_Name, City_Name |-> cities[i].City_Name ] ]

\* Lines 30-72: one trace per category, in order of first appearance; with a
\* country selected its marker is larger and opaque, the others are dimmed.
generate_enhanced_bubble_map(table, selected_country) ==
    LET categories == Uniques([ i \in 1..Len(table) |-> table[i].Category ], { })
    IN  [ k \in 1..Len(categories) |->
            LET df_cat == SelectSeq(table, LAMBDA r : r.Category = categories[k])
            IN  [ name |-> categories[k],
                  customdata |-> [ i \in 1..Len(df_cat) |-> df_cat[i].Country ],
                  size |-> [ i \in 1..Len(df_cat) |->
                               IF selected_country = "" THEN df_cat[i].No_of_Cities * 22
                               ELSE IF df_cat[i].Country = selected_country
                               THEN df_cat[i].No_of_Cities * 25
                               ELSE df_cat[i].No_of_Cities * 20 ],
                  opacity |-> [ i \in 1..Len(df_cat) |->
                                  IF selected_country = "" THEN 8
                                  ELSE IF df_cat[i].Country = selected_country THEN 10
                                  ELSE 4 ] ] ]

\* Lines 510-545: the figure, the rows of the table and the info panel for the
\* values of the three inputs; a search term that is no pattern raises
\* re.error at line 525.
update_visualization(table, cities_only, dropdown_value, reset_clicks, search_term) ==
    LET selected_country == IF dropdown_value = "ALL" THEN "" ELSE dropdown_value
        of_country == IF selected_country # ""
                      THEN SelectSeq(cities_only, LAMBDA r : r.Country_Name = selected_country)
                      ELSE cities_only
        compiled == compile(search_term)
        filtered_df == IF search_term # << >>
                       THEN SelectSeq(of_country,
                                      LAMBDA r : contains(compiled.pattern, r.City_Name))
                       ELSE of_country
        country_data == SelectSeq(table, LAMBDA r : r.Country = selected_country)
        counts == [ i \in 1..Len(table) |-> table[i].No_of_Cities ]
    IN  IF search_term # << >> /\ compiled.status # "ok"
        THEN [ status |-> compiled.status, figure |-> << >>, data |-> << >>, info |-> << >> ]
        ELSE IF selected_country # "" /\ country_data = << >>
        THEN [ status |-> "IndexError", figure |-> << >>, data |-> << >>, info |-> << >> ]
        ELSE [ status |-> "ok",
               figure |-> generate_enhanced_bubble_map(table, selected_country),
               data |-> filtered_df,
               info |-> IF selected_country # ""
                        THEN << selected_country,
                                "Colonies: " \o astype_str(country_data[1].No_of_Cities),
                                "Category: " \o country_data[1].Category,
                                "Cities displayed: " \o astype_str(Len(filtered_df)) >>
                        ELSE << "Overview",
                                "Total colonies: " \o astype_str(sum(counts)),
                                "Countries: " \o astype_str(Len(table)),
                                "Select a country to explore details" >> ]

\* Dash calls the callback with the current values of the inputs and writes
\* its outputs; a callback that raises writes none.
fire_update_visualization(page, input) ==
    LET cities_only == cities_only_df(cities_df.rows)
        out == CHOOSE o \in { update_visualization(df.rows, cities_only, page.country_selector,
                                                   page.n_clicks, page.search_box) } : TRUE
    IN  IF out.status = "ok"
        THEN [ page EXCEPT !.figure = out.figure, !.data = out.data, !.info = out.info,
                           !.triggered = input, !.callback = "ok" ]
        ELSE [ page EXCEPT !.triggered = input, !.callback = out.status ]

\* The options of the dropdown (lines 317-318).
country_options(table) == { "ALL" } \cup { table[i].Country : i \in 1..Len(table) }


(***************************************************************************)
(* SpecEnhanced: the Enhanced dashboard created, its page loaded, and the  *)
(* user at its controls.                                                   *)
(***************************************************************************)
EnhancedInit ==
    /\ build \in Builds
    /\ \E f \in AppFiles : txt_file = f[1] /\ mapping_file = f[2] /\ geo_file = f[3]
    /\ file_state = FilesOk
    /\ cities_df = NoCall
    /\ clean_df = NoCall
    /\ df = NoCall
    /\ kept_rows = << >>
    /\ labelled_rows = << >>
    /\ Idle

\* create_enhanced_app (lines 25-27), then the page loaded: Dash calls the
\* callback once with the initial values of the inputs.
Create_enhanced_app ==
    /\ enhanced.status = "none"
    /\ \E call \in { create_df_for_viz(txt_file, mapping_file, geo_file) } :
       \E cities \in { txt_to_dataframe(txt_file, mapping_file) } :
       \E cities_only \in { cities_only_df(cities.rows) } :
       LET created == call.returns.status = "ok" /\ cities.status = "ok"
           out == update_visualization(call.returns.rows, cities_only, "ALL", 0, << >>)
       IN  /\ clean_df' = Returned(call.clean_df, txt_file, mapping_file, << >>)
           /\ df' = Returned(call.returns, txt_file, mapping_file, geo_file)
           /\ cities_df' = IF call.returns.status # "ok" THEN NoCall
                           ELSE Returned(cities, txt_file, mapping_file, << >>)
           /\ enhanced' = IF ~ created THEN [ enhanced EXCEPT !.status = "error" ]
                          ELSE [ enhanced EXCEPT !.status = "created",
                                                 !.figure = out.figure, !.data = out.data,
                                                 !.info = out.info, !.triggered = "load",
                                                 !.callback = out.status ]
    /\ UNCHANGED <<build, txt_file, mapping_file, geo_file, kept_rows, labelled_rows,
                   file_state, app, extract, chat, professional>>

\* The user picks an option of the dropdown.
Select_country ==
    /\ enhanced.status = "created"
    /\ \E value \in country_options(df.rows) \ { enhanced.country_selector } :
           enhanced' = fire_update_visualization([ enhanced EXCEPT !.country_selector = value ],
                                                 "country-selector")
    /\ UNCHANGED <<pipeline, app, extract, chat, professional>>

\* The user clicks Reset View.
Click_reset_view ==
    /\ enhanced.status = "created"
    /\ enhanced.n_clicks < MaxClicks
    /\ enhanced' = fire_update_visualization([ enhanced EXCEPT !.n_clicks = @ + 1 ],
                                             "reset-button")
    /\ UNCHANGED <<pipeline, app, extract, chat, professional>>

\* The user changes the search box.
Type_search ==
    /\ enhanced.status = "created"
    /\ \E term \in { << >>, << "o", "s" >>, << "N" >>, << "(" >> } \ { enhanced.search_box } :
           enhanced' = fire_update_visualization([ enhanced EXCEPT !.search_box = term ],
                                                 "search-box")
    /\ UNCHANGED <<pipeline, app, extract, chat, professional>>

EnhancedNext == Create_enhanced_app \/ Select_country \/ Click_reset_view \/ Type_search

SpecEnhanced == EnhancedInit /\ [][EnhancedNext]_vars


(***************************************************************************)
(* The Professional dashboard                                              *)
(* (GR03B_Greek_Colonies_Dashboard_Professional.py): create_professional_  *)
(* app and its callback update_visualisations.  No click on a chart (None) *)
(* is the empty string.                                                    *)
(***************************************************************************)
\* list(CATEGORY_COLORS.keys()), lines 48-54.
CATEGORY_COLORS_keys ==
    << "90+ colonies", "60 - 90 colonies", "30 - 60 colonies", "10 - 20 colonies",
       "Less than 10 colonies" >>

\* Lines 82-83: the ends of the slider.
min_colonies(table) ==
    CHOOSE n \in { table[i].No_of_Cities : i \in 1..Len(table) } :
        \A i \in 1..Len(table) : n <= table[i].No_of_Cities
max_colonies_range(table) ==
    CHOOSE n \in { table[i].No_of_Cities : i \in 1..Len(table) } :
        \A i \in 1..Len(table) : n >= table[i].No_of_Cities

\* Lines 542-553.
filter_dataframe(base_df, categories, colony_range) ==
    LET in_bands == IF categories # << >>
                    THEN SelectSeq(base_df, LAMBDA r : \E k \in 1..Len(categories) :
                                                           r.Category = categories[k])
                    ELSE base_df
    IN  IF colony_range # << >>
        THEN SelectSeq(in_bands, LAMBDA r : /\ r.No_of_Cities >= colony_range[1]
                                            /\ r.No_of_Cities <= colony_range[2])
        ELSE in_bands

\* Lines 975-1082: the country selected, the countries and the cities shown.
update_visualisations(table, cities, dropdown_value, selected_categories, colony_range, map_click, bar_click, treemap_click, reset_clicks, stored_selection, triggered) ==
    LET countries(t) == { t[i].Country : i \in 1..Len(t) }
        chosen == CASE triggered = "reset-button" -> "ALL"
                    [] triggered = "bubble-map" /\ map_click # "" -> map_click
                    [] triggered = "bar-chart" /\ bar_click # "" -> bar_click
                    [] triggered = "treemap-chart" /\ treemap_click # ""
                                                  /\ treemap_click \in countries(table) ->
                         treemap_click
                    [] triggered = "country-selector" -> dropdown_value
                    [] OTHER -> IF stored_selection = "" THEN "ALL" ELSE stored_selection
        categories == IF selected_categories = << >> THEN CATEGORY_COLORS_keys
                      ELSE selected_categories
        filtered_df == filter_dataframe(table, categories, colony_range)
        selected_country == IF chosen \notin countries(filtered_df) THEN "ALL" ELSE chosen
        filtered_cities ==
            IF filtered_df = << >> THEN << >>
            ELSE IF selected_country # "ALL"
            THEN SelectSeq(cities, LAMBDA r : r.Country = selected_country)
            ELSE SelectSeq(cities, LAMBDA r : r.Country \in countries(filtered_df))
    IN  [ highlighted |-> IF selected_country = "ALL" THEN "" ELSE selected_country,
          data |-> filtered_cities,
          columns |-> IF selected_country = "ALL"
                         \/ Cardinality(countries(filtered_cities) \ { NaN }) > 1
                      THEN << "Country", "City" >> ELSE << "City" >>,
          store |-> selected_country,
          filtered_records |-> filtered_df ]

\* Dash calls the callback with the values of the inputs, the stored selection
\* and the id of the input that fired it, and writes the outputs.
fire_update_visualisations(page, input, click) ==
    LET out == CHOOSE o \in { update_visualisations(df.rows, rename(cities_df.rows),
                                                    page.country_selector,
                                                    page.category_checklist,
                                                    page.colony_range_slider, click, click,
                                                    click, page.n_clicks, page.store, input) } :
                   TRUE
    IN  [ page EXCEPT !.highlighted = out.highlighted, !.data = out.data,
                      !.columns = out.columns, !.store = out.store,
                      !.filtered_records = out.filtered_records, !.triggered = input ]


(***************************************************************************)
(* SpecProfessional: the Professional dashboard created, its page loaded,  *)
(* and the user at its controls.                                           *)
(***************************************************************************)
ProfessionalInit ==
    /\ build = CHOOSE b \in Builds : TRUE
    /\ \E f \in AppFiles : txt_file = f[1] /\ mapping_file = f[2] /\ geo_file = f[3]
    /\ file_state = FilesOk
    /\ cities_df = NoCall
    /\ clean_df = NoCall
    /\ df = NoCall
    /\ kept_rows = << >>
    /\ labelled_rows = << >>
    /\ Idle

\* create_professional_app (lines 69-83 and the layout), then the page loaded:
\* Dash calls the callback once with the initial values, fired by no input.
Create_professional_app ==
    /\ professional.status = "none"
    /\ \E call \in { create_df_for_viz(txt_file, mapping_file, geo_file) } :
       \E cities \in { txt_to_dataframe(txt_file, mapping_file) } :
       \E renamed \in { rename(cities.rows) } :
       LET created == call.returns.status = "ok" /\ cities.status = "ok"
           slider == << min_colonies(call.returns.rows), max_colonies_range(call.returns.rows) >>
           out == update_visualisations(call.returns.rows, renamed, "ALL",
                                        CATEGORY_COLORS_keys, slider, "", "", "", 0, "ALL", "")
       IN  /\ clean_df' = Returned(call.clean_df, txt_file, mapping_file, << >>)
           /\ df' = Returned(call.returns, txt_file, mapping_file, geo_file)
           /\ cities_df' = IF call.returns.status # "ok" THEN NoCall
                           ELSE Returned(cities, txt_file, mapping_file, << >>)
           /\ professional' =
                  IF ~ created THEN [ professional EXCEPT !.status = "error" ]
                  ELSE [ professional EXCEPT !.status = "created",
                             !.category_checklist = CATEGORY_COLORS_keys,
                             !.colony_range_slider = slider,
                             !.highlighted = out.highlighted, !.data = out.data,
                             !.columns = out.columns, !.store = out.store,
                             !.filtered_records = out.filtered_records,
                             !.triggered = "load" ]
    /\ UNCHANGED <<build, txt_file, mapping_file, geo_file, kept_rows, labelled_rows,
                   file_state, app, extract, chat, enhanced>>

\* The user picks an option of the dropdown.
Select_focus_country ==
    /\ professional.status = "created"
    /\ \E value \in country_options(df.rows) \ { professional.country_selector } :
           professional' =
               fire_update_visualisations([ professional EXCEPT !.country_selector = value ],
                                          "country-selector", "")
    /\ UNCHANGED <<pipeline, app, extract, chat, enhanced>>

\* The user switches bands of the checklist.
Set_checklist ==
    /\ professional.status = "created"
    /\ \E value \in { CATEGORY_COLORS_keys, << "Less than 10 colonies" >>, << >> } \ { professional.category_checklist } :
           professional' =
               fire_update_visualisations([ professional EXCEPT !.category_checklist = value ],
                                          "category-checklist", "")
    /\ UNCHANGED <<pipeline, app, extract, chat, enhanced>>

\* The user moves the ends of the slider.
Set_slider ==
    /\ professional.status = "created"
    /\ \E value \in { << min_colonies(df.rows), max_colonies_range(df.rows) >>,
                    << min_colonies(df.rows), min_colonies(df.rows) >>,
                    << max_colonies_range(df.rows), max_colonies_range(df.rows) >> }
                      \ { professional.colony_range_slider } :
           professional' =
               fire_update_visualisations([ professional EXCEPT !.colony_range_slider = value ],
                                          "colony-range-slider", "")
    /\ UNCHANGED <<pipeline, app, extract, chat, enhanced>>

\* The user clicks a country shown on a chart.
Click_chart ==
    /\ professional.status = "created"
    /\ \E chart \in { "bubble-map", "bar-chart", "treemap-chart" } :
       \E i \in 1..Len(professional.filtered_records) :
           professional' = fire_update_visualisations(professional, chart,
                                                      professional.filtered_records[i].Country)
    /\ UNCHANGED <<pipeline, app, extract, chat, enhanced>>

\* The user clicks Reset Filters.
Click_reset_filters ==
    /\ professional.status = "created"
    /\ professional.n_clicks < MaxClicks
    /\ professional' = fire_update_visualisations([ professional EXCEPT !.n_clicks = @ + 1 ],
                                                  "reset-button", "")
    /\ UNCHANGED <<pipeline, app, extract, chat, enhanced>>

ProfessionalNext ==
    \/ Create_professional_app
    \/ Select_focus_country
    \/ Set_checklist
    \/ Set_slider
    \/ Click_chart
    \/ Click_reset_filters

SpecProfessional == ProfessionalInit /\ [][ProfessionalNext]_vars

(***************************************************************************)
(* The claims.                                                             *)
(***************************************************************************)
Str_Apollonia == <<"A","p","o","l","l","o","n","i","a">>
Str_Neapolis_Napoli == <<"N","e","a","p","o","l","i","s","/","N","a","p","o","l","i">>
Str_Nea_Polis == <<"N","e","a"," ","P","o","l","i","s">>
Str_M_Neapolis == <<"I","T","0","3","."," ","N","e","a","p","o","l","i","s","/","N","a","p","o","l","i">>
Str_M_NeaPolis == <<"T","R","5","."," ","N","e","a"," ","P","o","l","i","s">>

\* The mention pattern as documented: the alternate name and the second word
\* are part of the name token (greedy quantifiers), one space after the period.
DOCUMENTED_PATTERN ==
    << Item(Upper, 1, TRUE, TRUE),
       Item(Digit, 1, TRUE, TRUE),
       Item({"."}, 1, FALSE, TRUE),
       Item({" "}, 1, FALSE, TRUE),
       Item(Letter, 1, TRUE, TRUE),
       Item({"/"}, 0, FALSE, TRUE),
       Item(Letter, 0, TRUE, TRUE),
       Item({" "}, 0, FALSE, TRUE),
       Item(Letter, 0, TRUE, TRUE) >>

\* The mentions of the documented pattern in a text, line by line, left to right.
DocumentedMentions(lines) ==
    chain([ i \in 1..Len(lines) |-> findall(DOCUMENTED_PATTERN, lines[i]) ])

\* The name token of a mention: what follows its period and space.
RECURSIVE NameToken(_)
NameToken(m) == IF Head(m) = "." THEN SubSeq(m, 3, Len(m)) ELSE NameToken(Tail(m))

\* C1: txt_to_dataframe extracts exactly the occurrences of the documented
\* mention pattern, line by line and left to right, and the city name of each
\* row is the whole name token of its mention, the "/"+letters alternate name
\* and the space+second word included: "IT03. Neapolis/Napoli" yields
\* "Neapolis/Napoli" and "TR5. Nea Polis" yields "Nea Polis".
C1_ExtractsDocumentedMentions ==
    cities_df.status = "ok" =>
        LET ms == DocumentedMentions(cities_df.read.txt)
            rows == cities_df.rows
        IN  /\ Len(rows) = Len(ms)
            /\ \A i \in 1..Len(rows) :
                   /\ rows[i].City_Name = NameToken(ms[i])
                   /\ ms[i] = Str_M_Neapolis => rows[i].City_Name = Str_Neapolis_Napoli
                   /\ ms[i] = Str_M_NeaPolis => rows[i].City_Name = Str_Nea_Polis

\* C2: for the one line "Some prose TR12. Apollonia and IT03. Neapolis/Napoli
\* more text", the mapping {TR: Turkey, IT: Italy} and the geo table {Turkey,
\* Italy}, txt_to_dataframe returns the rows (Turkey, Apollonia), (Italy,
\* Neapolis/Napoli) in that order and create_df_for_viz returns two rows, each
\* with city count 1 and category "Less than 10 colonies".
C2_EndToEndScenario ==
    /\ ( /\ cities_df.status # "none"
         /\ cities_df.read.txt = << Line_E2E >>
         /\ cities_df.read.mapping = Mapping_E2E )
       => /\ cities_df.status = "ok"
          /\ [ i \in 1..Len(cities_df.rows) |->
                 << cities_df.rows[i].Country_Name, cities_df.rows[i].City_Name >> ]
             = << << "Turkey", Str_Apollonia >>, << "Italy", Str_Neapolis_Napoli >> >>
    /\ ( /\ df.status # "none"
         /\ df.read.txt = << Line_E2E >>
         /\ df.read.mapping = Mapping_E2E
         /\ df.read.geo = Geo_E2E )
       => /\ df.status = "ok"
          /\ Len(df.rows) = 2
          /\ { df.rows[j].Country : j \in 1..Len(df.rows) } = { "Turkey", "Italy" }
          /\ \A j \in 1..Len(df.rows) :
                 /\ df.rows[j].No_of_Cities = 1
                 /\ df.rows[j].Category = "Less than 10 colonies"

Categories ==
    { "90+ colonies", "60 - 90 colonies", "30 - 60 colonies", "10 - 20 colonies",
      "Less than 10 colonies" }

\* C3: the category of a summary row depends on its city count n alone:
\* "90+ colonies" if n > 90, "60 - 90 colonies" if 60 < n < 90, "30 - 60
\* colonies" if 30 < n < 60, "10 - 20 colonies" if 10 < n < 20, and "Less than
\* 10 colonies" otherwise, so also for n in {10, 20, 30, 60, 90} and for every
\* n in 20..30; it is always one of the five labels.
C3_CategoryByCount ==
    \A j \in 1..Len(labelled_rows) :
        LET n == labelled_rows[j].No_of_Cities
            c == labelled_rows[j].Category
        IN  /\ c \in Categories
            /\ n = kept_rows[j].No_of_Cities
            /\ (c = "90+ colonies") <=> (n > 90)
            /\ (c = "60 - 90 colonies") <=> (60 < n /\ n < 90)
            /\ (c = "30 - 60 colonies") <=> (30 < n /\ n < 60)
            /\ (c = "10 - 20 colonies") <=> (10 < n /\ n < 20)
            /\ (n \in {10, 20, 30, 60, 90} \cup 20..30) => c = "Less than 10 colonies"

\* A row of count 90 has been given its category.
C3_Witness ==
    /\ labelled_rows # << >>
    /\ labelled_rows[1].No_of_Cities = 90
    /\ labelled_rows[1].Category = "Less than 10 colonies"

\* The non-missing country names of a per-city table.
ResolvedCountries(per_city) ==
    { per_city[i].Country_Name : i \in 1..Len(per_city) } \ { NaN }

\* Number of rows of a per-city table with country name c.
PerCityCount(per_city, c) ==
    Cardinality({ i \in 1..Len(per_city) : per_city[i].Country_Name = c })

\* The countries of a summary table.
SummaryCountries(rows) == { rows[j].Country : j \in 1..Len(rows) }

\* A call of create_df_for_viz has ended and its per-city table was built.
VizCalled == df.status # "none" /\ clean_df.status = "ok"

\* C4: create_df_for_viz never returns a row for "Serbia", and every other
\* country with at least one resolved city has a row in the result.
C4_SerbiaOnlyExcluded ==
    VizCalled =>
        /\ df.status = "ok" => "Serbia" \notin SummaryCountries(df.rows)
        /\ \A c \in ResolvedCountries(clean_df.rows) \ { "Serbia" } :
               df.status = "ok" /\ c \in SummaryCountries(df.rows)

\* Serbia had resolved cities and a country with as many cities kept its row.
C4_Witness ==
    /\ VizCalled /\ df.status = "ok"
    /\ "Serbia" \in ResolvedCountries(clean_df.rows)
    /\ \E j \in 1..Len(df.rows) :
           df.rows[j].No_of_Cities = PerCityCount(clean_df.rows, "Serbia")

\* The keys of a mapping table.
MappingKeys(mapping) == { mapping[k][1] : k \in 1..Len(mapping) }

RECURSIVE TotalCities(_)
TotalCities(rows) ==
    IF rows = << >> THEN 0 ELSE Head(rows).No_of_Cities + TotalCities(Tail(rows))

\* Some match of the text a call read has a country code that is no mapping key.
HasUnresolved(r) ==
    \E i \in 1..Len(r.rows) : r.rows[i].Country_Code \notin MappingKeys(r.read.mapping)

C6_OneRowPerCountry ==
    (VizCalled /\ df.status = "ok") =>
        /\ SummaryCountries(df.rows) = ResolvedCountries(clean_df.rows) \ { "Serbia" }
        /\ \A i, j \in 1..Len(df.rows) : i # j => df.rows[i].Country # df.rows[j].Country

\* A summary of several rows where a country has several cities and a row of
\* the per-city table (Serbia's or an unresolved one) has no summary row.
C6_Witness ==
    /\ VizCalled /\ df.status = "ok"
    /\ Len(df.rows) >= 2
    /\ \E j \in 1..Len(df.rows) : df.rows[j].No_of_Cities >= 2
    /\ \E i \in 1..Len(clean_df.rows) : clean_df.rows[i].Country_Name \in { NaN, "Serbia" }

\* C7: in every summary row the city count is at least 1 and is the number of
\* per-city rows of that country, rows that repeat a city code included.
C7_CityCount ==
    (VizCalled /\ df.status = "ok") =>
        \A j \in 1..Len(df.rows) :
            /\ df.rows[j].No_of_Cities >= 1
            /\ df.rows[j].No_of_Cities = PerCityCount(clean_df.rows, df.rows[j].Country)

\* Two per-city rows with the same city code were both counted.
C7_Witness ==
    /\ VizCalled /\ df.status = "ok"
    /\ \E j \in 1..Len(df.rows) : \E a, b \in 1..Len(clean_df.rows) :
           /\ a # b
           /\ clean_df.rows[a].City_Code = clean_df.rows[b].City_Code
           /\ clean_df.rows[a].Country_Name = df.rows[j].Country
           /\ clean_df.rows[b].Country_Name = df.rows[j].Country
           /\ df.rows[j].No_of_Cities = 2

\* C8: every country with resolved cities, Serbia apart, has a summary row
\* and no error is raised, whether or not the geo table lists it: a listed
\* country has the table's latitude and longitude, an unlisted one has both
\* missing.
C8_Coordinates ==
    VizCalled =>
        \A c \in ResolvedCountries(clean_df.rows) \ { "Serbia" } :
            /\ df.status = "ok"
            /\ \E j \in 1..Len(df.rows) :
                   /\ df.rows[j].Country = c
                   /\ LET geo == df.read.geo
                      IN  IF \E k \in 1..Len(geo) : geo[k][1] = c
                          THEN \E k \in 1..Len(geo) :
                                   /\ geo[k][1] = c
                                   /\ df.rows[j].Latitude = geo[k][2]
                                   /\ df.rows[j].Longitude = geo[k][3]
                          ELSE /\ df.rows[j].Latitude = NaN
                               /\ df.rows[j].Longitude = NaN

\* A summary with a row of missing coordinates and a row with coordinates.
C8_Witness ==
    /\ VizCalled /\ df.status = "ok"
    /\ \E j \in 1..Len(df.rows) :
           /\ df.rows[j].Latitude = NaN /\ df.rows[j].Longitude = NaN
           /\ \A k \in 1..Len(df.read.geo) : df.read.geo[k][1] # df.rows[j].Country
    /\ \E j \in 1..Len(df.rows) : df.rows[j].Latitude # NaN

\* The decimal numeral of a count below 1000.
Numeral(n) ==
    LET d == [ k \in 0..9 |-> CASE k = 0 -> "0" [] k = 1 -> "1" [] k = 2 -> "2"
                                [] k = 3 -> "3" [] k = 4 -> "4" [] k = 5 -> "5"
                                [] k = 6 -> "6" [] k = 7 -> "7" [] k = 8 -> "8"
                                [] k = 9 -> "9" ]
    IN  IF n < 10 THEN d[n]
        ELSE IF n < 100 THEN d[n \div 10] \o d[n % 10]
        ELSE d[n \div 100] \o d[(n \div 10) % 10] \o d[n % 10]

\* C9: the display label of a summary row is the country name, "<br>", the
\* decimal city count and " colonies", the plural also for a count of 1;
\* Turkey with 98 cities has "Turkey<br>98 colonies".
C9_TraceText ==
    \A j \in 1..Len(labelled_rows) :
        LET r == labelled_rows[j]
        IN  /\ r.Country = kept_rows[j].Country
            /\ r.No_of_Cities = kept_rows[j].No_of_Cities
            /\ r.Trace_Text = r.Country \o "<br>" \o Numeral(r.No_of_Cities) \o " colonies"
            /\ (r.Country = "Turkey" /\ r.No_of_Cities = 98)
                 => r.Trace_Text = "Turkey<br>98 colonies"
            /\ (r.Country = "Turkey" /\ r.No_of_Cities = 1)
                 => r.Trace_Text = "Turkey<br>1 colonies"

\* A row of count 1 has been given its label.
C9_Witness ==
    /\ labelled_rows # << >>
    /\ labelled_rows[1].No_of_Cities = 1
    /\ labelled_rows[1].Trace_Text = "Italy<br>1 colonies"

\* The position of the first per-city row of country c.
FirstIndex(per_city, c) ==
    CHOOSE i \in 1..Len(per_city) :
        /\ per_city[i].Country_Name = c
        /\ \A k \in 1..i - 1 : per_city[k].Country_Name # c

\* C10 as claimed: the summary rows are in the order in which their countries
\* first appear in the per-city table, whatever their city counts.  Stated for
\* rows of different counts, whose order no build decides.
C10_FirstAppearanceOrder ==
    (VizCalled /\ df.status = "ok") =>
        \A i, j \in 1..Len(df.rows) :
            (i < j /\ df.rows[i].No_of_Cities # df.rows[j].No_of_Cities)
              => FirstIndex(clean_df.rows, df.rows[i].Country)
                       < FirstIndex(clean_df.rows, df.rows[j].Country)

\* C10 as amended: the summary rows are ordered by city count, largest first.
C10_OrderedByCountDescending ==
    (VizCalled /\ df.status = "ok") =>
        \A i \in 1..Len(df.rows) - 1 :
            df.rows[i].No_of_Cities >= df.rows[i + 1].No_of_Cities

\* A country that appears later in the text but has more cities is listed first.
C10_Witness ==
    /\ VizCalled /\ df.status = "ok"
    /\ \E i, j \in 1..Len(df.rows) :
           /\ i < j
           /\ df.rows[i].No_of_Cities > df.rows[j].No_of_Cities
           /\ FirstIndex(clean_df.rows, df.rows[i].Country)
                > FirstIndex(clean_df.rows, df.rows[j].Country)

\* The number of matches in the lines before line k.
RECURSIVE MatchesBefore(_, _)
MatchesBefore(per_line, k) ==
    IF k <= 1 THEN 0 ELSE Len(per_line[k - 1]) + MatchesBefore(per_line, k - 1)

\* The rows of t are the matches of line 1 from left to right, then those of
\* line 2, and so on: the i-th match of line k is the row number
\* (matches before line k) + i, and there is no other row.
InSourceOrder(t) ==
    LET per_line == city_list_of(t.read.txt)
    IN  /\ Len(t.rows) = MatchesBefore(per_line, Len(per_line) + 1)
        /\ \A k \in 1..Len(per_line) : \A i \in 1..Len(per_line[k]) :
               t.rows[MatchesBefore(per_line, k) + i].City_Code_and_Name = per_line[k][i]

\* C11: the per-city table preserves source order: its rows are the matches of
\* line 1 in left-to-right order, then those of line 2, and so on; the
\* flattening drops, duplicates and reorders no match.
C11_SourceOrderPreserved ==
    /\ cities_df.status = "ok" => InSourceOrder(cities_df)
    /\ clean_df.status = "ok" => InSourceOrder(clean_df)

\* A text of two lines, three matches in the first and two in the second.
C11_Witness ==
    /\ cities_df.status = "ok"
    /\ cities_df.read.txt = << Line_Greece, Line_E2E >>
    /\ Len(cities_df.rows) = 5

Str_M_Apollonia == <<"T","R","1","2","."," ","A","p","o","l","l","o","n","i","a">>
Str_TR12 == <<"T","R","1","2">>

\* The position of the first "." of m.
FirstDot(m) == CHOOSE p \in 1..Len(m) : m[p] = "." /\ \A q \in 1..(p - 1) : m[q] # "."

\* s without its leading and trailing whitespace.
Trimmed(s) ==
    LET inked == { i \in 1..Len(s) : s[i] \notin Whitespace }
    IN  IF inked = {} THEN << >>
        ELSE SubSeq(s, CHOOSE a \in inked : \A i \in inked : a <= i,
                       CHOOSE b \in inked : \A i \in inked : i <= b)

\* The leading run of uppercase letters of s.
UpperPrefix(s) ==
    LET n == CHOOSE n \in 0..Len(s) :
                 /\ \A i \in 1..n : s[i] \in Upper
                 /\ n = Len(s) \/ s[n + 1] \notin Upper
    IN  SubSeq(s, 1, n)

SplitOnFirstDot(r) ==
    LET m == r.City_Code_and_Name
        p == FirstDot(m)
    IN  /\ r.City_Code = Trimmed(SubSeq(m, 1, p - 1))
        /\ r.City_Name = Trimmed(SubSeq(m, p + 1, Len(m)))
        /\ r.Country_Code = UpperPrefix(r.City_Code)
        /\ Trimmed(m) = Str_M_Apollonia =>
               /\ r.City_Code = Str_TR12
               /\ r.City_Name = Str_Apollonia
               /\ r.Country_Code = Code_TR

\* C12: for every matched string, city_code is the trimmed text before the
\* first ".", city_name the trimmed text after that first "." (the whole
\* remainder) and country_code the leading run of uppercase letters of
\* city_code; for "TR12. Apollonia": "TR12", "Apollonia" and "TR".
C12_SplitOnFirstDot ==
    /\ cities_df.status = "ok" => \A i \in 1..Len(cities_df.rows) : SplitOnFirstDot(cities_df.rows[i])
    /\ clean_df.status = "ok" => \A i \in 1..Len(clean_df.rows) : SplitOnFirstDot(clean_df.rows[i])

\* The mention of Apollonia, matched with the blank that follows it.
C12_Witness ==
    /\ cities_df.status = "ok"
    /\ \E i \in 1..Len(cities_df.rows) :
           /\ Trimmed(cities_df.rows[i].City_Code_and_Name) = Str_M_Apollonia
           /\ cities_df.rows[i].City_Code_and_Name # Str_M_Apollonia
           /\ cities_df.rows[i].City_Name = Str_Apollonia

\* The number of matches in the text.
MatchesIn(lines) == MatchesBefore(city_list_of(lines), Len(lines) + 1)

\* C13: a line with no match contributes no row and is not an error, for every
\* input text, a text without any match included: txt_to_dataframe completes,
\* with as many rows as the text has matches (zero rows for a text without
\* match), and create_df_for_viz then returns a summary with zero rows.
C13_NoMatchIsNoError ==
    /\ cities_df.status # "none" =>
           cities_df.status = "ok" /\ Len(cities_df.rows) = MatchesIn(cities_df.read.txt)
    /\ (df.status # "none" /\ MatchesIn(df.read.txt) = 0) =>
           df.status = "ok" /\ df.rows = << >>

NoRepeat(seq) == \A i, j \in 1..Len(seq) : i # j => seq[i] # seq[j]

\* The errors a call can end in.
Errors == { "ValueError", "FileNotFoundError", "ParserError", "KeyError" }

\* The call ended in an error: no table, and no file opened twice.
Failed(t) == t.status \in Errors /\ t.rows = << >> /\ NoRepeat(t.opened)

\* C14: if the country-code mapping file or the geo-coordinates file is missing
\* or malformed, the call of txt_to_dataframe / create_df_for_viz ends in an
\* error surfaced to the caller: no table is returned, neither partial nor
\* empty, and no file is loaded a second time.  The error of the first file
\* that fails is the one surfaced.
C14_ReferenceFileErrorSurfaced ==
    /\ (cities_df.status # "none" /\ file_state.mapping # "ok") =>
           /\ Failed(cities_df)
           /\ MatchesIn(txt_file) > 0 => cities_df.status = FileErrors[file_state.mapping]
    /\ (clean_df.status # "none" /\ file_state.mapping # "ok") => Failed(clean_df)
    /\ (df.status # "none" /\ (file_state.mapping # "ok" \/ file_state.geo # "ok")) =>
           /\ Failed(df)
           /\ (MatchesIn(txt_file) > 0 /\ file_state.mapping # "ok") =>
                  df.status = FileErrors[file_state.mapping] /\ df.opened = << "txt", "mapping" >>
           /\ (MatchesIn(txt_file) > 0 /\ file_state.mapping = "ok") =>
                  df.status = FileErrors[file_state.geo] /\ df.opened = << "txt", "mapping", "geo" >>

\* The geo file is missing and the mapping file is in place: txt_to_dataframe
\* returns its table, create_df_for_viz ends in FileNotFoundError.
C14_Witness ==
    /\ file_state.geo = "missing"
    /\ cities_df.status = "ok"
    /\ df.status = "FileNotFoundError"

\* The mapping file is no CSV table.
C14_WitnessMalformed ==
    /\ file_state.mapping = "unparsable"
    /\ cities_df.status = "ParserError"
    /\ df.status = "ParserError"

CountInText(lines, mapping, c) ==
    LET per_line == city_list_of(lines)
        places == UNION { { << k, i >> : i \in 1..Len(per_line[k]) } : k \in 1..Len(lines) }
    IN  Cardinality({ pos \in places :
                        DictGet(mapping, UpperPrefix(per_line[pos[1]][pos[2]]), NaN) = c })

\* The table of the call is the one of the files the call read, whatever was
\* called before.
ReflectsFilesRead(call) ==
    LET t == call.result
    IN  /\ t.opened # << >> /\ t.opened[1] = "txt"
        /\ (call.fn = "txt_to_dataframe" /\ t.status = "ok") =>
               /\ InSourceOrder(t)
               /\ \A i \in 1..Len(t.rows) :
                      t.rows[i].Country_Name = DictGet(t.read.mapping, t.rows[i].Country_Code, NaN)
        /\ (call.fn = "create_df_for_viz" /\ t.status = "ok") =>
               /\ t.opened = << "txt", "mapping", "geo" >>
               /\ \A c \in CountryNames \ { "Serbia" } :
                      IF CountInText(t.read.txt, t.read.mapping, c) = 0
                      THEN \A i \in 1..Len(t.rows) : t.rows[i].Country # c
                      ELSE \E i \in 1..Len(t.rows) :
                               /\ t.rows[i].Country = c
                               /\ t.rows[i].No_of_Cities = CountInText(t.read.txt, t.read.mapping, c)
                               /\ t.rows[i].Latitude = DictGet(lat_dict(t.read.geo), c, NaN)

\* C16: txt_to_dataframe and create_df_for_viz keep no state between calls:
\* each call reads the source files again and builds its tables from them, so
\* its result depends on the file contents at the time of the call and on no
\* earlier call; a change of the files between two calls shows in the second
\* result.
C16_NoStateBetweenCalls ==
    \A i \in 1..Len(history) : ReflectsFilesRead(history[i])

\* Two calls of the same function, the files changed in between, the two
\* tables different.
C16_Witness ==
    /\ Len(history) >= 2
    /\ history[1].fn = history[2].fn
    /\ history[1].result.read # history[2].result.read
    /\ history[1].result.status = "ok" /\ history[2].result.status = "ok"
    /\ history[1].result.rows # history[2].result.rows

\* C17: load_data is a compute-once wrapper: it loads and caches the data, so
\* that after a first call a later call returns the cached tables without
\* running the extraction and aggregation pipeline again: however often
\* load_data was called, the pipeline ran once.
C17_LoadDataComputesOnce == loads >= 1 => pipeline_runs = 1

\* C18: consumers read the pipeline's tables without changing them: a call of
\* get_colony_statistics, get_country_details, search_colonies,
\* compare_countries, generate_map_visualization, generate_bar_chart or
\* generate_category_distribution leaves the summary table and the per-city
\* table with the rows, columns and values they had, and so does every
\* sequence of such calls.  A step of SpecApp that does not run the pipeline
\* is a call of one of the seven.
C18_ConsumersReadOnly ==
    [][pipeline_runs' = pipeline_runs => (df' = df /\ cities_df' = cities_df)]_vars

\* The map was drawn with Turkey selected: the figure's table has the two
\* added columns, the summary table has not.
C18_Witness ==
    /\ tool_out.tool = "generate_map_visualization"
    /\ tool_out.args.country = "Turkey"
    /\ \E i \in 1..Len(tool_out.result.plot_df) :
           tool_out.result.plot_df[i].marker_size = tool_out.result.plot_df[i].No_of_Cities * 45
    /\ \A i \in 1..Len(df.rows) : "marker_size" \notin DOMAIN df.rows[i]

\* The same letter, whatever the case; any other character is only itself.
SameIgnoringCase(a, b) == a = b \/ \E pair \in CasePairs : a \in pair /\ b \in pair

\* The name contains the query as a substring, the case of letters ignored.
ContainsIgnoringCase(name, query) ==
    \E off \in 0..(Len(name) - Len(query)) :
        \A i \in 1..Len(query) : SameIgnoringCase(name[off + i], query[i])

\* The rows of the per-city table whose city name contains the query, the
\* first 20 of them, as records of Country and City.
SubstringHits(cities, query) ==
    LET hits == SelectSeq(cities, LAMBDA r : ContainsIgnoringCase(city_col(r), query))
    IN  [ i \in 1..(IF Len(hits) < 20 THEN Len(hits) ELSE 20) |->
            [ Country |-> country_col(hits[i]), City |-> city_col(hits[i]) ] ]

\* C19: search_colonies returns, for every query string, one that contains
\* "." or "(" included, the first at most 20 rows, in table order, of the
\* per-city rows whose city name contains the query as a case-insensitive
\* substring, every result with exactly the keys Country and City, and the
\* call does not raise.
C19_SearchBySubstring ==
    tool_out.tool = "search_colonies" =>
        /\ tool_out.status = "ok"
        /\ tool_out.result = SubstringHits(cities_df.rows, tool_out.args)

\* The positions of the per-city rows of the country.
RowsOf(cities, country) == { i \in 1..Len(cities) : country_col(cities[i]) = country }

\* The k-th smallest member of a set of positions.
Kth(places, k) == CHOOSE i \in places : Cardinality({ j \in places : j < i }) = k - 1

\* C20: get_country_details returns None exactly when the country has no row in
\* the summary table (an unknown name, or Serbia after the exclusion);
\* otherwise 'cities' is the first min(10, total) city names of the country in
\* per-city table order, 'total_cities' the number of per-city rows of the
\* country, and 'num_colonies' and 'category' are those of the summary row.
C20_CountryDetails ==
    tool_out.tool = "get_country_details" =>
        LET country == tool_out.args
            places == RowsOf(cities_df.rows, country)
            total == Cardinality(places)
        IN  /\ tool_out.result = << >> <=>
                   \A i \in 1..Len(df.rows) : df.rows[i].Country # country
            /\ tool_out.result # << >> =>
                   LET details == tool_out.result[1]
                   IN  /\ details.total_cities = total
                       /\ Len(details.cities) = (IF total < 10 THEN total ELSE 10)
                       /\ \A k \in 1..Len(details.cities) :
                              details.cities[k] = city_col(cities_df.rows[Kth(places, k)])
                       /\ \E i \in 1..Len(df.rows) :
                              /\ df.rows[i].Country = country
                              /\ details.num_colonies = df.rows[i].No_of_Cities
                              /\ details.category = df.rows[i].Category

\* The country of eleven cities: ten of them are listed.
C20_Witness ==
    /\ tool_out.tool = "get_country_details"
    /\ tool_out.args = "Turkey"
    /\ tool_out.result # << >>
    /\ tool_out.result[1].total_cities = 11
    /\ Len(tool_out.result[1].cities) = 10

\* Serbia has cities in the per-city table and no row in the summary: None.
C20_WitnessSerbia ==
    /\ tool_out.tool = "get_country_details"
    /\ tool_out.args = "Serbia"
    /\ tool_out.result = << >>
    /\ RowsOf(cities_df.rows, "Serbia") # {}

\* The requested countries that have a row in the summary table, in the order
\* of the request.
FoundCountries(countries) ==
    SelectSeq(countries, LAMBDA c : \E i \in 1..Len(df.rows) : df.rows[i].Country = c)

\* The first cities of the country in the per-city table, at most 3, one
\* after the other with ", " in between.
RECURSIVE SampleCities(_, _, _)
SampleCities(places, k, n) ==
    IF k > n THEN ""
    ELSE (IF k > 1 THEN ", " ELSE "")
           \o Str(city_col(cities_df.rows[Kth(places, k)])) \o SampleCities(places, k + 1, n)

\* The line of the comparison table for a country of the summary table.
ComparisonLine(c) ==
    LET row == df.rows[CHOOSE i \in 1..Len(df.rows) : df.rows[i].Country = c]
        places == RowsOf(cities_df.rows, c)
        shown == IF Cardinality(places) < 3 THEN Cardinality(places) ELSE 3
    IN  "| " \o c \o " | " \o Numeral(row.No_of_Cities) \o " | " \o row.Category \o " | "
          \o SampleCities(places, 1, shown) \o "... |\n"

RECURSIVE ComparisonLines(_)
ComparisonLines(found) ==
    IF found = << >> THEN "" ELSE ComparisonLine(Head(found)) \o ComparisonLines(Tail(found))

\* C21: compare_countries skips every requested country that has no summary
\* row, returns "No data found for the specified countries." exactly when none
\* of the requested countries has one (the empty request included), and
\* otherwise returns a table with one line per requested country found, in the
\* order of the request, each line showing at most 3 sample cities.
C21_CompareCountries ==
    tool_out.tool = "compare_countries" =>
        LET found == FoundCountries(tool_out.args)
        IN  /\ tool_out.result = "No data found for the specified countries." <=> found = << >>
            /\ found # << >> =>
                   tool_out.result =
                       "## Country Comparison\n\n"
                         \o "| Country | Colonies | Category | Sample Cities |\n"
                         \o "|---------|----------|----------|---------------|\n"
                         \o ComparisonLines(found)

\* A request that names a country of eleven cities and a country without
\* summary row.
C21_Witness ==
    /\ tool_out.tool = "compare_countries"
    /\ tool_out.args = << "Turkey", "Atlantis", "Turkey" >>
    /\ Cardinality(RowsOf(cities_df.rows, "Turkey")) = 11
    /\ tool_out.result # "No data found for the specified countries."

\* The per-city rows that the summary counts.
CountedRows(per_city) ==
    { i \in 1..Len(per_city) : per_city[i].Country_Name \notin { NaN, "Serbia" } }

\* C26: conservation of rows: the sum of the city counts over the rows that
\* create_df_for_viz returns is the number of per-city rows whose country name
\* is not null and not "Serbia", and no per-city row is counted in two
\* countries.
C26_RowsConserved ==
    (VizCalled /\ df.status = "ok") =>
        /\ TotalCities(df.rows) = Cardinality(CountedRows(clean_df.rows))
        /\ \A i \in CountedRows(clean_df.rows) :
               Cardinality({ j \in 1..Len(df.rows) :
                               df.rows[j].Country = clean_df.rows[i].Country_Name }) = 1

\* A per-city table with a row of Serbia, a row without country name and
\* counted rows.
C26_Witness ==
    /\ VizCalled /\ df.status = "ok"
    /\ df.rows # << >>
    /\ \E i \in 1..Len(clean_df.rows) : clean_df.rows[i].Country_Name = NaN
    /\ \E i \in 1..Len(clean_df.rows) : clean_df.rows[i].Country_Name = "Serbia"

\* C27: when the summary table and the per-city table come from the same input
\* files, get_country_details reports, for every country that has a summary
\* row, a 'total_cities' (counted from the per-city table) equal to its
\* 'num_colonies' (taken from the summary table).
C27_DetailsConsistent ==
    (tool_out.tool = "get_country_details" /\ df.read.txt = cities_df.read.txt
       /\ df.read.mapping = cities_df.read.mapping) =>
        \A k \in 1..Len(tool_out.result) :
            tool_out.result[k].total_cities = tool_out.result[k].num_colonies

\* The details of a country of two cities, the per-city table holding a row
\* without country name as well.
C27_Witness ==
    /\ tool_out.tool = "get_country_details"
    /\ tool_out.result # << >>
    /\ tool_out.result[1].num_colonies = 2
    /\ \E i \in 1..Len(cities_df.rows) : country_col(cities_df.rows[i]) = NaN


(***************************************************************************)
(* C22                                                                     *)
(***************************************************************************)
\* The content of the first json block of a reply: what stands between the
\* first json fence and the next fence, or the rest of the reply when the
\* block is not closed; no block is the empty sequence.
FirstJsonBlock(response) ==
    LET open == find(response, FENCE_JSON, 0)
        close == find(response, FENCE, open + Len(FENCE_JSON))
    IN  IF open = -1 THEN << >>
        ELSE << SubSeq(response, open + Len(FENCE_JSON) + 1,
                       IF close = -1 THEN Len(response) ELSE close) >>

\* The parsed JSON is an object with a "visualization" key.
HasVisualizationKey(value) ==
    value.type = "dict" /\ \E k \in 1..Len(value.keys) : value.keys[k] = VISUALIZATION

\* What C22 says the call returns.
Requested(response) ==
    LET block == FirstJsonBlock(response)
        parsed == json_loads(block[1])
    IN  IF block = << >> THEN << >>
        ELSE IF parsed.status # "ok" THEN << >>
        ELSE IF HasVisualizationKey(parsed.value) THEN << parsed.value >>
        ELSE << >>

\* C22: extract_visualization_request never raises: it returns None when the
\* reply has no json block, when the block is not valid JSON or when the parsed
\* JSON has no "visualization" key (a number, a string and a list included), and
\* otherwise the parsed object of the first json block.
C22_ExtractNeverRaises ==
    extract.status # "none" =>
        /\ extract.status = "ok"
        /\ extract.result = Requested(extract.response)


(***************************************************************************)
(* C23                                                                     *)
(***************************************************************************)
\* The messages of a request between the system message and the last one.
HistorySent(messages) == SubSeq(messages, 2, Len(messages) - 1)

\* C23: every request built by the on_message handler is one system message,
\* then at most MAX_CHAT_HISTORY (20) messages of the chat history, the most
\* recent ones in their original order, then the current user message; never
\* more than 20 history messages, however long the session.
C23_RequestWindow ==
    chat.pending # << >> =>
        LET messages == chat.pending[1].messages
            sent == HistorySent(messages)
            older == Len(chat.chat_history) - Len(sent)
        IN  /\ Len(messages) >= 2
            /\ messages[1].role = "system"
            /\ \A i \in 2..Len(messages) : messages[i].role # "system"
            /\ messages[Len(messages)]
                   = [ role |-> "user", content |-> chat.pending[1].user_message ]
            /\ Len(sent) <= 20
            /\ Len(sent) = IF Len(chat.chat_history) < 20 THEN Len(chat.chat_history) ELSE 20
            /\ \A i \in 1..Len(sent) : sent[i] = chat.chat_history[older + i]

\* A request built when the history holds more than 20 messages.
C23_Witness ==
    /\ chat.pending # << >>
    /\ Len(chat.chat_history) > 20
    /\ Len(chat.pending[1].messages) = 22

(***************************************************************************)
(* C28                                                                     *)
(***************************************************************************)
\* Even length, the roles user and assistant in turn.
Alternates(messages) ==
    /\ Len(messages) % 2 = 0
    /\ \A i \in 1..Len(messages) :
           messages[i].role = IF i % 2 = 1 THEN "user" ELSE "assistant"

\* One step of the session, on the history.
HistoryStep ==
    LET before == chat.chat_history
        after == chat'.chat_history
        answered == chat.llm = "called" /\ chat'.llm = "ok"
        failed == chat.llm = "called" /\ chat'.llm = "error"
    IN  /\ answered =>
               after = before \o << [ role |-> "user",
                                       content |-> chat.pending[1].user_message ],
                                     [ role |-> "assistant", content |-> extract'.response ] >>
        /\ failed => after = before
        /\ after # before => answered
        /\ Alternates(after)

\* C28: the chat history changes only on success: a handled message whose call
\* of the model succeeds appends the user message then the reply of the
\* assistant, one whose call fails leaves the history unchanged; the history
\* always has even length and alternates user, assistant.
C28_HistoryOnlyOnSuccess == [][HistoryStep]_vars

\* A call of the model has failed after an earlier one succeeded, and the
\* history holds the one exchange.
C28_Witness ==
    /\ chat.llm = "error"
    /\ chat.received = 2
    /\ Len(chat.chat_history) = 2


(***************************************************************************)
(* C24                                                                     *)
(***************************************************************************)
\* No marker of the map is set apart from the others.
NoCountryHighlighted(figure) ==
    \A k \in 1..Len(figure) :
        \A i \in 1..Len(figure[k].opacity) : figure[k].opacity[i] = 8

\* The table shows cities of every country that has cities matching the
\* search box: no row is left out for its country.
NotFilteredByCountry(page) ==
    LET all == cities_only_df(cities_df.rows)
        shown(r) == \E i \in 1..Len(page.data) : page.data[i] = r
    IN  \A i \in 1..Len(all) :
            (page.search_box = << >>
               \/ contains(compile(page.search_box).pattern, all[i].City_Name))
              => shown(all[i])

\* C24: in the Enhanced dashboard a click on Reset View returns the view to all
\* countries: after the callback of the click no country is highlighted on the
\* map, the table is not filtered by country and the info panel shows the
\* overview, whatever country was selected before.
C24_ResetViewShowsAll ==
    (enhanced.triggered = "reset-button" /\ enhanced.callback = "ok") =>
        /\ NoCountryHighlighted(enhanced.figure)
        /\ NotFilteredByCountry(enhanced)
        /\ enhanced.info[1] = "Overview"


(***************************************************************************)
(* C25                                                                     *)
(***************************************************************************)
\* C25: in the Professional dashboard a click on Reset Filters resets the
\* filters: after the callback of the click the stored selected country is
\* "ALL" and the checklist of bands and the slider of the range are back at
\* their default values, so that all countries are displayed again.
C25_ResetFiltersRestoresDefaults ==
    professional.triggered = "reset-button" =>
        /\ professional.store = "ALL"
        /\ professional.category_checklist = CATEGORY_COLORS_keys
        /\ professional.colony_range_slider
               = << min_colonies(df.rows), max_colonies_range(df.rows) >>
        /\ professional.filtered_records = df.rows

====
